---- MODULE Spec2Model ----
(***************************************************************************)
(* HappyFarmer2000: crop lifecycle (checkpoint generator, state deriver),  *)
(* hook registry / sorter / pipeline executor, and the crop action         *)
(* handlers (plant, harvest, steal) over the storage tables.               *)
(*                                                                         *)
(* Time is kept in milliseconds where the code divides Date.now() by 1000  *)
(* (elapsed), and in seconds where the code stores seconds (time_offset,   *)
(* deadline, stage_times, wither_time).                                    *)
(***************************************************************************)
EXTENDS Integers, Sequences, FiniteSets, TLC

VARIABLES
    \* ---- crop lifecycle harness (generator + deriver) ----
    cropConfig,       \* the CropConfig the generator / deriver is applied to
    generator,        \* "none" | "crops" | "index": which generateCropCheckpoints ran
    checkpoints,      \* the Checkpoint[] returned by the generator
    checkpointsData,  \* the rows plant persists (deadline || time_offset + 1800)
    observed,         \* results of getCropState, at increasing elapsed times
    \* ---- hook registry and pipeline ----
    registered,       \* every hook registered for the endpoint name, in call order
    pendingHooks,     \* PENDING_HOOKS.get(name): hooks queued before the endpoint exists
    endpointExists,   \* ENDPOINTS_REGISTRY.has(name)
    endpointHooks,    \* endpoint.hooks as used by executeWithHooks
    sortInput,        \* the list scanConfigs handed to sortHooks
    sortedOnce,       \* scanConfigs has run sortHooks
    pc,               \* position inside executeWithHooks
    hookIndex,        \* loop index inside the before / after loops
    response,         \* the Response being passed along / returned
    trace,            \* events of the current invocation, in order
    handlerRuns,      \* how often the main handler ran in this invocation
    \* ---- storage tables and clock ----
    now,              \* Date.now(), in seconds since the epoch of the model
    objects,          \* game_objects: id -> row (or NoRow)
    objCheckpoints,   \* game_checkpoints: object id -> rows
    objParams,        \* game_object_params: object id -> key -> value (string)
    stats,            \* user_stats: user -> key -> Int
    actionLog,        \* daily action log: rows [actor, action, target, at]
    friends,          \* friendship relation: set of <<user, friend>>
    nextId,           \* next serial id of game_objects
    harvested,        \* ids for which some harvest call succeeded
    lastCall,         \* the response to the last request, when its verb is watched
    watched,          \* the verbs whose responses are kept in lastCall
    modConfig,        \* the guard module's `mod` config section (block chances, in percent)
    procs             \* invocations in progress: their position and what they have read

cropVars == <<cropConfig, generator, checkpoints, checkpointsData, observed>>
hookVars == <<registered, pendingHooks, endpointExists, endpointHooks, sortInput, sortedOnce,
              pc, hookIndex, response, trace, handlerRuns>>
gameVars == <<now, objects, objParams, objCheckpoints, stats, actionLog, friends, nextId, harvested,
             lastCall, watched, modConfig, procs>>
runVars == <<modConfig, procs>>
vars == <<cropVars, hookVars, gameVars>>

----------------------------------------------------------------------------
(* Optional values: null / undefined is the empty sequence.                *)

None == <<>>
Some(x) == <<x>>
IsNone(o) == o = <<>>

(* JavaScript's o || d for an optional number: d when o is null or 0.      *)
OrElse(o, d) == IF IsNone(o) THEN d ELSE IF o[1] = 0 THEN d ELSE o[1]

(* Math.ceil(a / b) for b > 0. *)
CeilDiv(a, b) == -((-a) \div b)

(* The code's elapsed is elapsedMs / 1000, a real number; t is in whole    *)
(* seconds.  The comparisons and Math.ceil(t - elapsed) on it, in integers *)
(* (without forming t * 1000, which leaves the 32-bit range for the        *)
(* "never" deadline).                                                      *)
ElapsedBefore(elapsedMs, t) == elapsedMs \div 1000 < t
ElapsedAfter(elapsedMs, t) == CeilDiv(elapsedMs, 1000) > t
CeilRemaining(t, elapsedMs) == t - (elapsedMs \div 1000)

Finite(n) == [inf |-> FALSE, val |-> n]
Infinite == [inf |-> TRUE, val |-> 0]

----------------------------------------------------------------------------
(* Config catalog.  Chances are in percent; 0 stands for an absent or zero *)
(* chance (both falsy in `config.pest_chance || 0.1`).                     *)

DefaultPestChance == 10
DefaultWaterChance == 30
PestDeadline == 600
WaterDeadline == 1800
NeverDeadline == 999999999
PersistDefault == 1800

ScenarioConfig ==
    [code |-> "tomato", stage_times |-> <<60, 120>>, wither_time |-> 600,
     pest_chance |-> 0, water_chance |-> 0, exp |-> 5, sell_silver |-> 10,
     buy_silver |-> 10, yield |-> <<10, 10>>, steal_percent |-> 20,
     stages |-> <<"seed", "sprout", "ripe", "withered">>]

NoWitherConfig ==
    [code |-> "wheat", stage_times |-> <<60, 120>>, wither_time |-> 0,
     pest_chance |-> 50, water_chance |-> 50, exp |-> 3, sell_silver |-> 5,
     buy_silver |-> 5, yield |-> <<3, 4>>, steal_percent |-> 50,
     stages |-> <<>>]

ZeroStageConfig ==
    [code |-> "radish", stage_times |-> <<0, 60>>, wither_time |-> 30,
     pest_chance |-> 100, water_chance |-> 0, exp |-> 1, sell_silver |-> 1,
     buy_silver |-> 1, yield |-> <<0, 1>>, steal_percent |-> 100,
     stages |-> <<"seed", "ripe">>]

CONFIGS == {ScenarioConfig, NoWitherConfig, ZeroStageConfig}

(* Outcomes of Math.random(), in percent. *)
Draws == {5, 40}

RECURSIVE SeqsOfLen(_, _)
SeqsOfLen(S, n) ==
    IF n = 0 THEN {<<>>}
    ELSE {Append(s, x) : s \in SeqsOfLen(S, n - 1), x \in S}

----------------------------------------------------------------------------
(* Checkpoint generator, crops/FSM.ts.  rolls holds the outcomes of the    *)
(* Math.random() calls in call order: pest then water for each stage.      *)

Checkpoint(t, a, d) == [time_offset |-> t, action |-> a, deadline |-> d, done_at |-> None]

RECURSIVE GenStages(_, _, _, _, _)
GenStages(config, rolls, i, currentTime, acc) ==
    IF i > Len(config.stage_times) THEN [time |-> currentTime, cps |-> acc]
    ELSE
        LET t == currentTime + config.stage_times[i]
            pest == rolls[2 * i - 1] < (IF config.pest_chance = 0 THEN DefaultPestChance ELSE config.pest_chance)
            water == rolls[2 * i] < (IF config.water_chance = 0 THEN DefaultWaterChance ELSE config.water_chance)
            a1 == IF pest THEN Append(acc, Checkpoint(t, "remove_pest", Some(t + PestDeadline))) ELSE acc
            a2 == IF water THEN Append(a1, Checkpoint(t, "water", Some(t + WaterDeadline))) ELSE a1
        IN GenStages(config, rolls, i + 1, t, a2)

(* faulty variant: the harvest deadline taken relative to the harvest time *)
generateCropCheckpointsRelative(config, rolls) ==
    LET g == GenStages(config, rolls, 1, 0, <<>>)
        harvestDeadline == IF config.wither_time > 0
                           THEN config.wither_time
                           ELSE NeverDeadline
    IN Append(g.cps, Checkpoint(g.time, "harvest", Some(harvestDeadline)))

generateCropCheckpoints(config, rolls) ==
    LET g == GenStages(config, rolls, 1, 0, <<>>)
        harvestDeadline == IF config.wither_time > 0
                           THEN g.time + config.wither_time
                           ELSE g.time + NeverDeadline
    IN Append(g.cps, Checkpoint(g.time, "harvest", Some(harvestDeadline)))

(* The rows handlePlant persists for the generated checkpoints. *)
PersistCheckpoint(cp) ==
    [time_offset |-> cp.time_offset, action |-> cp.action,
     deadline |-> Some(OrElse(cp.deadline, cp.time_offset + PersistDefault)),
     done_at |-> None]

PersistCheckpoints(cps) == [i \in 1..Len(cps) |-> PersistCheckpoint(cps[i])]

----------------------------------------------------------------------------
(* Checkpoint generator of the HTTP shell (index.ts): stage transitions    *)
(* with a null deadline, the harvest checkpoint (null deadline when        *)
(* wither_time is 0), then one water and one pest trial.  Every config of  *)
(* the catalog carries stage_times, so the [30, 60, 90] default is unused. *)

(* `stage_${s}` for the stage keys the catalog uses *)
StageTag(k) ==
    CASE k = "seed" -> "stage_seed"
      [] k = "sprout" -> "stage_sprout"
      [] k = "ripe" -> "stage_ripe"
      [] OTHER -> "stage_other"

StageNames(config) ==
    LET keep(k) == k # "withered" /\ k # "seed" /\ k # "ripe"
        keys == <<"seed">> \o SelectSeq(config.stages, keep) \o <<"ripe">>
    IN [i \in 1..Len(keys) |-> StageTag(keys[i])]

(* stages[i + 1] || 'stage_ripe', i counted from 0 in the code, from 1 here *)
StageAction(config, i) ==
    LET names == StageNames(config)
    IN IF i + 1 <= Len(names) THEN names[i + 1] ELSE "stage_ripe"

RECURSIVE GenStageIndex(_, _, _, _)
GenStageIndex(config, i, currentTime, acc) ==
    IF i > Len(config.stage_times) THEN [time |-> currentTime, cps |-> acc]
    ELSE
        LET t == currentTime + config.stage_times[i]
        IN GenStageIndex(config, i + 1, t,
                         Append(acc, Checkpoint(t, StageAction(config, i), None)))

(* Math.floor(currentTime * 0.7) in IEEE doubles: one below the exact      *)
(* floor(7c/10) for these c (all such c <= 200, the catalog's range).      *)
FloatLowSevenTenths == {90, 170, 180}
FloorSevenTenths(c) ==
    IF c \in FloatLowSevenTenths THEN (7 * c) \div 10 - 1 ELSE (7 * c) \div 10

generateCropCheckpointsIndex(config, rolls) ==
    LET g == GenStageIndex(config, 1, 0, <<>>)
        witherTime == config.wither_time
        a0 == Append(g.cps, Checkpoint(g.time, "harvest",
                       IF witherTime > 0 THEN Some(g.time + witherTime) ELSE None))
        water == rolls[1] < (IF config.water_chance = 0 THEN DefaultWaterChance ELSE config.water_chance)
        waterTime == g.time \div 2
        a1 == IF water THEN Append(a0, Checkpoint(waterTime, "water", Some(waterTime + WaterDeadline))) ELSE a0
        pest == rolls[2] < (IF config.pest_chance = 0 THEN DefaultPestChance ELSE config.pest_chance)
        pestTime == FloorSevenTenths(g.time)
    IN IF pest THEN Append(a1, Checkpoint(pestTime, "remove_pest", Some(pestTime + PestDeadline))) ELSE a1

----------------------------------------------------------------------------
(* State deriver, crops/FSM.ts getCropState.  elapsedMs = now - createdAt  *)
(* in milliseconds; the code's elapsed is elapsedMs / 1000.                *)

(* faulty variant: the loop index returned as the stage (the code's i, not i + 1) *)
RECURSIVE StageWalkZeroBased(_, _, _, _)
StageWalkZeroBased(stage_times, i, totalTime, elapsedMs) ==
    IF i > Len(stage_times) THEN [found |-> FALSE, stage |-> 0, totalTime |-> totalTime]
    ELSE
        LET t == totalTime + stage_times[i]
        IN IF ElapsedBefore(elapsedMs, t)
           THEN [found |-> TRUE, stage |-> i - 1, totalTime |-> t]
           ELSE StageWalkZeroBased(stage_times, i + 1, t, elapsedMs)

(* faulty variant: the comparison of elapsed with the stage boundary reversed *)
RECURSIVE StageWalkReversed(_, _, _, _)
StageWalkReversed(stage_times, i, totalTime, elapsedMs) ==
    IF i > Len(stage_times) THEN [found |-> FALSE, stage |-> 0, totalTime |-> totalTime]
    ELSE
        LET t == totalTime + stage_times[i]
        IN IF ElapsedAfter(elapsedMs, t)
           THEN [found |-> TRUE, stage |-> i, totalTime |-> t]
           ELSE StageWalkReversed(stage_times, i + 1, t, elapsedMs)

RECURSIVE StageWalk(_, _, _, _)
StageWalk(stage_times, i, totalTime, elapsedMs) ==
    IF i > Len(stage_times) THEN [found |-> FALSE, stage |-> 0, totalTime |-> totalTime]
    ELSE
        LET t == totalTime + stage_times[i]
        IN IF ElapsedBefore(elapsedMs, t)
           THEN [found |-> TRUE, stage |-> i, totalTime |-> t]
           ELSE StageWalk(stage_times, i + 1, t, elapsedMs)

(* checkpoints.find(c => !c.done_at && elapsed >= c.time_offset): the index *)
(* of the first match in array order, 0 when there is none.                 *)
RECURSIVE FindPending(_, _, _)
FindPending(cps, i, elapsedMs) ==
    IF i > Len(cps) THEN 0
    ELSE IF IsNone(cps[i].done_at) /\ ~ElapsedBefore(elapsedMs, cps[i].time_offset) THEN i
    ELSE FindPending(cps, i + 1, elapsedMs)

CropState(stage, ready, withered, action, ttn) ==
    [stage |-> stage, isReady |-> ready, isWithered |-> withered,
     needsAction |-> action, timeToNext |-> ttn]

(* faulty variant: a pending action is reported by the first evaluation only *)
getCropStateOnce(config, cps, elapsedMs) ==
    LET w == StageWalk(config.stage_times, 1, 0, elapsedMs)
        n == Len(config.stage_times)
        witherTime == w.totalTime + config.wither_time
        p == FindPending(cps, 1, elapsedMs)
        told == observed # <<>> /\ ~IsNone(observed[Len(observed)].state.needsAction)
    IN IF w.found
       THEN CropState(w.stage, FALSE, FALSE, None,
                      Some(Finite(CeilRemaining(w.totalTime, elapsedMs))))
       ELSE IF config.wither_time > 0 /\ ElapsedAfter(elapsedMs, witherTime)
       THEN CropState(n, FALSE, TRUE, None, None)
       ELSE IF p # 0 /\ ElapsedAfter(elapsedMs, cps[p].deadline[1])
       THEN CropState(n, FALSE, TRUE, None, None)
       ELSE IF p # 0
       THEN CropState(n, FALSE, FALSE, IF told THEN None ELSE Some(cps[p].action),
                      Some(Finite(CeilRemaining(cps[p].deadline[1], elapsedMs))))
       ELSE CropState(n, TRUE, FALSE, None,
                      IF config.wither_time > 0
                      THEN Some(Finite(CeilRemaining(witherTime, elapsedMs)))
                      ELSE Some(Infinite))

(* faulty variant: an overdue pending checkpoint is still named as the action *)
getCropStateOverdueAction(config, cps, elapsedMs) ==
    LET w == StageWalk(config.stage_times, 1, 0, elapsedMs)
        n == Len(config.stage_times)
        witherTime == w.totalTime + config.wither_time
        p == FindPending(cps, 1, elapsedMs)
    IN IF w.found
       THEN CropState(w.stage, FALSE, FALSE, None,
                      Some(Finite(CeilRemaining(w.totalTime, elapsedMs))))
       ELSE IF config.wither_time > 0 /\ ElapsedAfter(elapsedMs, witherTime)
       THEN CropState(n, FALSE, TRUE, None, None)
       ELSE IF p # 0 /\ ElapsedAfter(elapsedMs, cps[p].deadline[1])
       THEN CropState(n, FALSE, TRUE, Some(cps[p].action), None)
       ELSE IF p # 0
       THEN CropState(n, FALSE, FALSE, Some(cps[p].action),
                      Some(Finite(CeilRemaining(cps[p].deadline[1], elapsedMs))))
       ELSE CropState(n, TRUE, FALSE, None,
                      IF config.wither_time > 0
                      THEN Some(Finite(CeilRemaining(witherTime, elapsedMs)))
                      ELSE Some(Infinite))

getCropState(config, cps, elapsedMs) ==
    LET w == StageWalk(config.stage_times, 1, 0, elapsedMs)
        n == Len(config.stage_times)
        witherTime == w.totalTime + config.wither_time
        p == FindPending(cps, 1, elapsedMs)
    IN IF w.found
       THEN CropState(w.stage, FALSE, FALSE, None,
                      Some(Finite(CeilRemaining(w.totalTime, elapsedMs))))
       ELSE IF config.wither_time > 0 /\ ElapsedAfter(elapsedMs, witherTime)
       THEN CropState(n, FALSE, TRUE, None, None)
       ELSE IF p # 0 /\ ElapsedAfter(elapsedMs, cps[p].deadline[1])
       THEN CropState(n, FALSE, TRUE, None, None)
       ELSE IF p # 0
       THEN CropState(n, FALSE, FALSE, Some(cps[p].action),
                      Some(Finite(CeilRemaining(cps[p].deadline[1], elapsedMs))))
       ELSE CropState(n, TRUE, FALSE, None,
                      IF config.wither_time > 0
                      THEN Some(Finite(CeilRemaining(witherTime, elapsedMs)))
                      ELSE Some(Infinite))

----------------------------------------------------------------------------
(* Idle values of the variable groups a specification does not use.        *)

NoResponse == [kind |-> "none", by |-> "", via |-> <<>>]
NoCall == [op |-> "none", user |-> "", id |-> 0, ok |-> FALSE, error |-> "", amount |-> 0]

CropIdle ==
    /\ cropConfig = ScenarioConfig
    /\ generator = "none"
    /\ checkpoints = <<>>
    /\ checkpointsData = <<>>
    /\ observed = <<>>

HookIdle ==
    /\ registered = <<>>
    /\ pendingHooks = <<>>
    /\ endpointExists = FALSE
    /\ endpointHooks = <<>>
    /\ sortInput = <<>>
    /\ sortedOnce = FALSE
    /\ pc = "idle"
    /\ hookIndex = 0
    /\ response = NoResponse
    /\ trace = <<>>
    /\ handlerRuns = 0

NoModConfig == [block_chance_fed |-> 0, block_chance_hungry |-> 0]

RunIdle ==
    /\ modConfig = NoModConfig
    /\ procs = <<>>

GameIdle ==
    /\ now = 0
    /\ objects = <<>>
    /\ objCheckpoints = <<>>
    /\ objParams = <<>>
    /\ stats = <<>>
    /\ actionLog = <<>>
    /\ friends = {}
    /\ nextId = 1
    /\ harvested = {}
    /\ lastCall = NoCall
    /\ watched = {}
    /\ RunIdle

----------------------------------------------------------------------------
(* Crop lifecycle: a config is planted (its checkpoints generated and      *)
(* persisted), water / remove_pest checkpoints are completed, and the      *)
(* deriver is queried at non-decreasing elapsed times (Date.now() may be   *)
(* the same for two evaluations).                                          *)

MaxObservations == 3

(* elapsed times (ms) the deriver is queried at *)
ElapsedGrid == {0, 30000, 60000, 90000, 179999, 180000, 190000, 190500,
                780000, 781000, 2000000}

CropInit ==
    /\ cropConfig \in CONFIGS
    /\ generator = "none"
    /\ checkpoints = <<>>
    /\ checkpointsData = <<>>
    /\ observed = <<>>
    /\ HookIdle
    /\ GameIdle

(* handlePlant of crops/FSM.ts: generate, then persist *)
GenerateCrops ==
    /\ generator = "none"
    /\ \E rolls \in SeqsOfLen(Draws, 2 * Len(cropConfig.stage_times)) :
          /\ checkpoints' = generateCropCheckpoints(cropConfig, rolls)
          /\ checkpointsData' = PersistCheckpoints(generateCropCheckpoints(cropConfig, rolls))
    /\ generator' = "crops"
    /\ UNCHANGED <<cropConfig, observed, hookVars, gameVars>>

(* handlePlantCrop of the HTTP shell: generate, then persist *)
GenerateIndex ==
    /\ generator = "none"
    /\ \E rolls \in SeqsOfLen(Draws, 2) :
          /\ checkpoints' = generateCropCheckpointsIndex(cropConfig, rolls)
          /\ checkpointsData' = PersistCheckpoints(generateCropCheckpointsIndex(cropConfig, rolls))
    /\ generator' = "index"
    /\ UNCHANGED <<cropConfig, observed, hookVars, gameVars>>

(* db.completeCheckpoint(cropId, 'water' | 'remove_pest', userId) *)
CompleteCheckpoint ==
    /\ generator = "crops"
    /\ \E i \in 1..Len(checkpointsData) :
          /\ checkpointsData[i].action \in {"water", "remove_pest"}
          /\ IsNone(checkpointsData[i].done_at)
          /\ checkpointsData' = [checkpointsData EXCEPT ![i].done_at = Some(1)]
    /\ observed' = <<>>
    /\ UNCHANGED <<cropConfig, generator, checkpoints, hookVars, gameVars>>

LastElapsed == IF observed = <<>> THEN -1 ELSE observed[Len(observed)].elapsed

Observe ==
    /\ generator = "crops"
    /\ Len(observed) < MaxObservations
    /\ \E e \in ElapsedGrid :
          /\ e >= LastElapsed
          /\ observed' = Append(observed,
                [elapsed |-> e, state |-> getCropState(cropConfig, checkpointsData, e)])
    /\ UNCHANGED <<cropConfig, generator, checkpoints, checkpointsData, hookVars, gameVars>>

CropNext == GenerateCrops \/ GenerateIndex \/ CompleteCheckpoint \/ Observe

SpecCrop == CropInit /\ [][CropNext]_vars

(* the checkpoint set the generator yields when no random event fires *)
ScenarioCheckpoints == PersistCheckpoints(<<Checkpoint(180, "harvest", Some(780))>>)

InScenario ==
    /\ cropConfig = ScenarioConfig
    /\ generator = "crops"
    /\ checkpointsData = ScenarioCheckpoints

(* C3: for stage_times=[60,120], wither_time=600 and the lone undone harvest *)
(* checkpoint (180, deadline 780), the deriver at elapsed=190 reports ready, *)
(* not withered, with 590 seconds left to wither.                            *)
C3_ReadyAt190 ==
    \A k \in 1..Len(observed) :
        (InScenario /\ observed[k].elapsed = 190000) =>
            /\ observed[k].state.isReady
            /\ ~observed[k].state.isWithered
            /\ observed[k].state.timeToNext = Some(Finite(590))

(* C4: same config, no random-event checkpoints: stage 1 and not ready at   *)
(* elapsed=30, stage 2 and not ready at elapsed=90, withered at elapsed=781. *)
C4_ScenarioStages ==
    \A k \in 1..Len(observed) :
        InScenario =>
            /\ observed[k].elapsed = 30000 =>
                  observed[k].state.stage = 1 /\ ~observed[k].state.isReady
            /\ observed[k].elapsed = 90000 =>
                  observed[k].state.stage = 2 /\ ~observed[k].state.isReady
            /\ observed[k].elapsed = 781000 => observed[k].state.isWithered

C4_Witness ==
    /\ InScenario
    /\ Len(observed) = 3
    /\ observed[1].elapsed = 30000
    /\ observed[2].elapsed = 90000
    /\ observed[3].elapsed = 781000

(* C9: every generated checkpoint that has a deadline, and every deadline    *)
(* persisted by plant, is at or after the checkpoint's time_offset.          *)
C9_DeadlineAfterOffset ==
    /\ \A i \in 1..Len(checkpoints) :
          ~IsNone(checkpoints[i].deadline) =>
              checkpoints[i].deadline[1] >= checkpoints[i].time_offset
    /\ \A i \in 1..Len(checkpointsData) :
          checkpointsData[i].deadline[1] >= checkpointsData[i].time_offset

C9_Witness ==
    /\ generator = "crops"
    /\ cropConfig.wither_time > 0
    /\ \E i, j \in 1..Len(checkpointsData) :
          /\ checkpointsData[i].action = "remove_pest"
          /\ checkpointsData[j].action = "water"
    /\ checkpointsData[Len(checkpointsData)].action = "harvest"

(* C10: for a fixed config and checkpoint set the reported stage never       *)
(* decreases as elapsed grows.                                               *)
C10_StageMonotone ==
    \A i, j \in 1..Len(observed) :
        observed[i].elapsed <= observed[j].elapsed =>
            observed[i].state.stage <= observed[j].state.stage

C10_Witness ==
    /\ Len(observed) = 3
    /\ observed[1].state.stage < observed[2].state.stage
    /\ observed[2].state.isReady = FALSE
    /\ observed[3].state.isWithered

----------------------------------------------------------------------------
(* Hook registry and sorter (index.ts).  A PendingHook is                  *)
(*   [moduleName, runBefore, runAfter, before, after]                      *)
(* where before / after say whether the hook has that function.  One       *)
(* endpoint name is modelled; hooks of other endpoints never meet it.      *)

PendingHook(m, rb, ra, b, a) ==
    [moduleName |-> m, runBefore |-> rb, runAfter |-> ra, before |-> b, after |-> a]

Range(s) == {s[i] : i \in 1..Len(s)}

(* keys of `graph` (a Map) in insertion order: module names by first use *)
RECURSIVE GraphKeys(_, _, _)
GraphKeys(hooks, i, acc) ==
    IF i > Len(hooks) THEN acc
    ELSE IF hooks[i].moduleName \in Range(acc) THEN GraphKeys(hooks, i + 1, acc)
    ELSE GraphKeys(hooks, i + 1, Append(acc, hooks[i].moduleName))

(* moduleToHook.get(name): Map.set keeps the last hook of a module name *)
moduleToHook(hooks, name) ==
    LET last == CHOOSE i \in 1..Len(hooks) :
                    /\ hooks[i].moduleName = name
                    /\ \A j \in (i + 1)..Len(hooks) : hooks[j].moduleName # name
    IN hooks[last]

(* graph: module -> modules that must come before it.  A runBefore target *)
(* is added only when graph.has(target); a runAfter dependency is added   *)
(* unconditionally (graph.has(h.moduleName) is always true).              *)
BuildGraph(hooks) ==
    [n \in Range(GraphKeys(hooks, 1, <<>>)) |->
        {hooks[i].moduleName : i \in {k \in 1..Len(hooks) : n \in hooks[k].runBefore}}
        \cup UNION {hooks[i].runAfter : i \in {k \in 1..Len(hooks) : hooks[k].moduleName = n}}]

(* Kahn's loop: shift a node, emit its hook, delete it from every         *)
(* dependency set in key order and queue the targets that reach 0.        *)
RECURSIVE Kahn(_, _, _, _, _, _)
Kahn(hooks, keys, queue, graph, inDegree, result) ==
    IF queue = <<>> THEN result
    ELSE
        LET node == Head(queue)
            hit(k) == node \in graph[k]
            newGraph == [k \in DOMAIN graph |-> graph[k] \ {node}]
            newDegree == [k \in DOMAIN inDegree |->
                             IF hit(k) THEN inDegree[k] - 1 ELSE inDegree[k]]
            freed(k) == hit(k) /\ newDegree[k] = 0
        IN Kahn(hooks, keys, Tail(queue) \o SelectSeq(keys, freed),
                newGraph, newDegree, Append(result, moduleToHook(hooks, node)))

(* faulty variant: the partial result returned when a cycle keeps hooks unsorted *)
sortHooksNoFallback(hooks) ==
    IF Len(hooks) <= 1 THEN hooks
    ELSE
        LET keys == GraphKeys(hooks, 1, <<>>)
            graph == BuildGraph(hooks)
            inDegree == [k \in DOMAIN graph |-> Cardinality(graph[k])]
            zero(k) == inDegree[k] = 0
        IN Kahn(hooks, keys, SelectSeq(keys, zero), graph, inDegree, <<>>)

sortHooks(hooks) ==
    IF Len(hooks) <= 1 THEN hooks
    ELSE
        LET keys == GraphKeys(hooks, 1, <<>>)
            graph == BuildGraph(hooks)
            inDegree == [k \in DOMAIN graph |-> Cardinality(graph[k])]
            zero(k) == inDegree[k] = 0
            result == Kahn(hooks, keys, SelectSeq(keys, zero), graph, inDegree, <<>>)
        IN IF Len(result) # Len(hooks) THEN hooks ELSE result

----------------------------------------------------------------------------
(* Registration (moduleAPI) and the sort pass of scanConfigs.              *)

MaxHooks == 3

Modules == {"dog", "eagle", "cat"}
(* a module name no hook of the endpoint carries *)
Unattached == "ghost"

registerEndpoint ==
    /\ ~sortedOnce
    /\ endpointExists' = TRUE
    /\ endpointHooks' = pendingHooks
    /\ pendingHooks' = <<>>
    /\ UNCHANGED <<registered, sortInput, sortedOnce, pc, hookIndex, response, trace,
                   handlerRuns, cropVars, gameVars>>

registerHook(h) ==
    /\ ~sortedOnce
    /\ Len(registered) < MaxHooks
    /\ registered' = Append(registered, h)
    /\ IF endpointExists
       THEN endpointHooks' = Append(endpointHooks, h) /\ UNCHANGED pendingHooks
       ELSE pendingHooks' = Append(pendingHooks, h) /\ UNCHANGED endpointHooks
    /\ UNCHANGED <<endpointExists, sortInput, sortedOnce, pc, hookIndex, response, trace,
                   handlerRuns, cropVars, gameVars>>

(* scanConfigs: endpoint.hooks = sortHooks(endpoint.hooks) for each endpoint *)
scanConfigsSort ==
    /\ ~sortedOnce
    /\ sortedOnce' = TRUE
    /\ IF endpointExists
       THEN sortInput' = endpointHooks /\ endpointHooks' = sortHooks(endpointHooks)
       ELSE UNCHANGED <<sortInput, endpointHooks>>
    /\ UNCHANGED <<registered, pendingHooks, endpointExists, pc, hookIndex, response, trace,
                   handlerRuns, cropVars, gameVars>>

(* hooks the sorter is studied on: one constraint each, on an attached or  *)
(* an unattached module                                                    *)
SortHookOptions ==
    {PendingHook(m, {}, {}, TRUE, FALSE) : m \in Modules}
    \cup {PendingHook(m, {t}, {}, TRUE, FALSE) : m \in Modules, t \in Modules \cup {Unattached}}
    \cup {PendingHook(m, {}, {t}, TRUE, FALSE) : m \in Modules, t \in Modules \cup {Unattached}}

SortInit ==
    /\ registered = <<>>
    /\ pendingHooks = <<>>
    /\ endpointExists = TRUE
    /\ endpointHooks = <<>>
    /\ sortInput = <<>>
    /\ sortedOnce = FALSE
    /\ pc = "idle"
    /\ hookIndex = 0
    /\ response = NoResponse
    /\ trace = <<>>
    /\ handlerRuns = 0
    /\ CropIdle
    /\ GameIdle

SortNext ==
    \/ \E h \in SortHookOptions : registerHook(h)
    \/ scanConfigsSort

SpecSort == SortInit /\ [][SortNext]_vars

Names(hooks) == {hooks[i].moduleName : i \in 1..Len(hooks)}

(* <<a, b>>: the hook of a must run before the hook of b, both attached *)
MustPrecede(hooks) ==
    {<<a, b>> \in Names(hooks) \X Names(hooks) :
        \E i \in 1..Len(hooks) :
            \/ hooks[i].moduleName = b /\ a \in hooks[i].runAfter
            \/ hooks[i].moduleName = a /\ b \in hooks[i].runBefore}

RECURSIVE Closure(_, _)
Closure(R, k) ==
    IF k = 0 THEN R
    ELSE LET T == Closure(R, k - 1)
         IN T \cup {<<p[1][1], p[2][2]>> : p \in {q \in T \X R : q[1][2] = q[2][1]}}

HasCycle(hooks) ==
    LET T == Closure(MustPrecede(hooks), Cardinality(Names(hooks)))
    IN \E n \in Names(hooks) : <<n, n>> \in T

DistinctOwners(hooks) == Cardinality(Names(hooks)) = Len(hooks)

Position(hooks, name) == CHOOSE i \in 1..Len(hooks) : hooks[i].moduleName = name

HonoursConstraints(out) ==
    \A i, j \in 1..Len(out) :
        /\ out[j].moduleName \in out[i].runAfter => j < i
        /\ out[j].moduleName \in out[i].runBefore => i < j

(* hooks with no attached predecessor keep their registration order *)
TiesInRegistrationOrder(given, out) ==
    \A a, b \in Names(given) :
        (/\ \A e \in MustPrecede(given) : e[2] # a /\ e[2] # b
         /\ Position(given, a) < Position(given, b))
        => Position(out, a) < Position(out, b)

(* C7: for acyclic constraints the sorted order honours every runAfter and  *)
(* runBefore between attached hooks, with zero-indegree ties in             *)
(* registration order.                                                       *)
C7_AcyclicSorted ==
    (sortedOnce /\ DistinctOwners(sortInput) /\ ~HasCycle(sortInput)) =>
        /\ HonoursConstraints(endpointHooks)
        /\ TiesInRegistrationOrder(sortInput, endpointHooks)

(* C8: with a dependency cycle sortHooks ends and returns the hooks in      *)
(* their registration order.                                                 *)
C8_CycleFallsBack ==
    (sortedOnce /\ HasCycle(sortInput)) => endpointHooks = sortInput

C8_Witness ==
    /\ sortedOnce
    /\ HasCycle(sortInput)
    /\ Len(sortInput) = 3
    /\ DistinctOwners(sortInput)
    /\ \E i \in 1..3 : sortInput[i].runBefore = {} /\ sortInput[i].runAfter = {}
    /\ endpointHooks = sortInput

----------------------------------------------------------------------------
(* Pipeline executor (index.ts executeWithHooks), one step per awaited     *)
(* call.  A before-hook returns null or a Response; the handler returns a  *)
(* Response; an after-hook returns a Response built from the one it got.   *)

Event(ev, hook, blocked, input, output) ==
    [ev |-> ev, hook |-> hook, blocked |-> blocked, input |-> input, output |-> output]

BlockedBy(m) == [kind |-> "blocked", by |-> m, via |-> <<>>]
HandlerResults == {[kind |-> "ok", by |-> "crops", via |-> <<>>],
                   [kind |-> "error", by |-> "crops", via |-> <<>>]}
Transformed(r, m) == [r EXCEPT !.via = Append(@, m)]

(* the request reaches executeWithHooks of a registered endpoint *)
executeWithHooks ==
    /\ sortedOnce
    /\ endpointExists
    /\ pc \in {"idle", "done"}
    /\ pc' = "before"
    /\ hookIndex' = 1
    /\ response' = NoResponse
    /\ trace' = <<>>
    /\ handlerRuns' = 0
    /\ UNCHANGED <<registered, pendingHooks, endpointExists, endpointHooks, sortInput,
                   sortedOnce, cropVars, gameVars>>

(* faulty variant: the before-hook's result is not looked at *)
runBeforeHookIgnoringResult ==
    /\ pc = "before"
    /\ hookIndex <= Len(endpointHooks)
    /\ LET h == endpointHooks[hookIndex] IN
          IF h.before
          THEN \E blocked \in BOOLEAN :
                  /\ trace' = Append(trace, Event("before", h.moduleName, blocked, NoResponse,
                                      IF blocked THEN BlockedBy(h.moduleName) ELSE NoResponse))
                  /\ hookIndex' = hookIndex + 1
                  /\ UNCHANGED <<pc, response>>
          ELSE /\ hookIndex' = hookIndex + 1
               /\ UNCHANGED <<pc, response, trace>>
    /\ UNCHANGED <<registered, pendingHooks, endpointExists, endpointHooks, sortInput,
                   sortedOnce, handlerRuns, cropVars, gameVars>>

(* one turn of the BEFORE loop *)
runBeforeHook ==
    /\ pc = "before"
    /\ hookIndex <= Len(endpointHooks)
    /\ LET h == endpointHooks[hookIndex] IN
          IF h.before
          THEN \E blocked \in BOOLEAN :
                  /\ trace' = Append(trace, Event("before", h.moduleName, blocked, NoResponse,
                                      IF blocked THEN BlockedBy(h.moduleName) ELSE NoResponse))
                  /\ IF blocked
                     THEN /\ response' = BlockedBy(h.moduleName)
                          /\ pc' = "done"
                          /\ UNCHANGED hookIndex
                     ELSE /\ hookIndex' = hookIndex + 1
                          /\ UNCHANGED <<pc, response>>
          ELSE /\ hookIndex' = hookIndex + 1
               /\ UNCHANGED <<pc, response, trace>>
    /\ UNCHANGED <<registered, pendingHooks, endpointExists, endpointHooks, sortInput,
                   sortedOnce, handlerRuns, cropVars, gameVars>>

(* let response = await endpoint.handler(ctx) *)
runHandler ==
    /\ pc = "before"
    /\ hookIndex > Len(endpointHooks)
    /\ \E r \in HandlerResults :
          /\ response' = r
          /\ trace' = Append(trace, Event("handler", "crops", FALSE, NoResponse, r))
    /\ handlerRuns' = handlerRuns + 1
    /\ pc' = "after"
    /\ hookIndex' = 1
    /\ UNCHANGED <<registered, pendingHooks, endpointExists, endpointHooks, sortInput,
                   sortedOnce, cropVars, gameVars>>

(* faulty variant: the after-hook's return value is dropped *)
runAfterHookDroppingResult ==
    /\ pc = "after"
    /\ hookIndex <= Len(endpointHooks)
    /\ LET h == endpointHooks[hookIndex] IN
          IF h.after
          THEN /\ trace' = Append(trace, Event("after", h.moduleName, FALSE, response,
                                               Transformed(response, h.moduleName)))
               /\ UNCHANGED response
          ELSE UNCHANGED <<response, trace>>
    /\ hookIndex' = hookIndex + 1
    /\ UNCHANGED <<registered, pendingHooks, endpointExists, endpointHooks, sortInput,
                   sortedOnce, pc, handlerRuns, cropVars, gameVars>>

(* one turn of the AFTER loop *)
runAfterHook ==
    /\ pc = "after"
    /\ hookIndex <= Len(endpointHooks)
    /\ LET h == endpointHooks[hookIndex] IN
          IF h.after
          THEN /\ trace' = Append(trace, Event("after", h.moduleName, FALSE, response,
                                               Transformed(response, h.moduleName)))
               /\ response' = Transformed(response, h.moduleName)
          ELSE UNCHANGED <<response, trace>>
    /\ hookIndex' = hookIndex + 1
    /\ UNCHANGED <<registered, pendingHooks, endpointExists, endpointHooks, sortInput,
                   sortedOnce, pc, handlerRuns, cropVars, gameVars>>

(* return response *)
returnResponse ==
    /\ pc = "after"
    /\ hookIndex > Len(endpointHooks)
    /\ pc' = "done"
    /\ UNCHANGED <<registered, pendingHooks, endpointExists, endpointHooks, sortInput,
                   sortedOnce, hookIndex, response, trace, handlerRuns, cropVars, gameVars>>

(* hooks the pipeline is studied on: one per module, with a before and / or *)
(* an after function, optionally declared to run before the dog's          *)
PipeHookOptions ==
    {PendingHook(m, rb, {}, b, a) :
        m \in Modules, rb \in {{}, {"dog"}}, b \in BOOLEAN, a \in BOOLEAN}

PipeInit == HookIdle /\ CropIdle /\ GameIdle

PipeNext ==
    \/ registerEndpoint
    \/ \E h \in PipeHookOptions :
          /\ h.before \/ h.after
          /\ h.moduleName \notin Names(registered)
          /\ registerHook(h)
    \/ scanConfigsSort
    \/ executeWithHooks
    \/ runBeforeHook
    \/ runHandler
    \/ runAfterHook
    \/ returnResponse

SpecPipeline == PipeInit /\ [][PipeNext]_vars

WithBefore(hooks) == LET f(h) == h.before IN SelectSeq(hooks, f)
WithAfter(hooks) == LET f(h) == h.after IN SelectSeq(hooks, f)

(* C5: once a before-hook returns a result, that result is what the        *)
(* invocation returns; no later before-hook, no handler (so none of its    *)
(* storage writes) and no after-hook runs.                                  *)
C5_ShortCircuit ==
    \A k \in 1..Len(trace) :
        (trace[k].ev = "before" /\ trace[k].blocked) =>
            /\ k = Len(trace)
            /\ pc = "done"
            /\ response = trace[k].output
            /\ handlerRuns = 0

C5_Witness ==
    /\ pc = "done"
    /\ Len(trace) = 2
    /\ trace[2].blocked
    /\ Len(WithBefore(endpointHooks)) = 3
    /\ Len(WithAfter(endpointHooks)) >= 1

(* C6: with no short-circuit, the before-hooks run once each in sorted      *)
(* order, then the handler once, then the after-hooks once each in the same *)
(* order, each fed the previous step's result; the last result is returned. *)
C6_FullPipeline ==
    (pc = "done" /\ response.kind # "blocked") =>
        LET B == WithBefore(endpointHooks)
            A == WithAfter(endpointHooks)
        IN /\ endpointHooks = sortHooks(sortInput)
           /\ Len(trace) = Len(B) + 1 + Len(A)
           /\ \A i \in 1..Len(B) :
                 trace[i].ev = "before" /\ trace[i].hook = B[i].moduleName
           /\ trace[Len(B) + 1].ev = "handler"
           /\ handlerRuns = 1
           /\ \A j \in 1..Len(A) :
                 /\ trace[Len(B) + 1 + j].ev = "after"
                 /\ trace[Len(B) + 1 + j].hook = A[j].moduleName
                 /\ trace[Len(B) + 1 + j].input = trace[Len(B) + j].output
           /\ response = trace[Len(trace)].output

C6_Witness ==
    /\ pc = "done"
    /\ response.kind = "ok"
    /\ Len(response.via) = 2
    /\ Len(trace) = 5
    /\ endpointHooks # sortInput

----------------------------------------------------------------------------
(* Game store and the crop / social handlers that read and write it.       *)
(* user_stats rows are keyed <<user, kind, code>>; object params hold      *)
(* decimal strings, kept as sequences of digits.                            *)

Users == {"1", "2", "3"}
Unauthenticated == "0"
GameConfigs == {ScenarioConfig, NoWitherConfig}
CropCodes == {"tomato", "wheat", "kiwi"}
Instants == {0, 200, 86500}

KnownCrop(code) == \E c \in GameConfigs : c.code = code
getConfig(code) == CHOOSE c \in GameConfigs : c.code = code

RECURSIVE String(_)
String(n) == IF n < 10 THEN <<n>> ELSE Append(String(n \div 10), n % 10)

RECURSIVE ParseDigits(_, _, _)
ParseDigits(str, i, acc) ==
    IF i > Len(str) THEN acc ELSE ParseDigits(str, i + 1, acc * 10 + str[i])

(* parseInt(value || fallback) for a param that may be missing or empty *)
parseInt(value, fallback) ==
    IF IsNone(value) THEN ParseDigits(fallback, 1, 0)
    ELSE IF value[1] = <<>> THEN ParseDigits(fallback, 1, 0)
    ELSE ParseDigits(value[1], 1, 0)

getParam(id, key) ==
    IF key \in DOMAIN objParams[id] THEN Some(objParams[id][key]) ELSE None

Without(f, id) == [i \in DOMAIN f \ {id} |-> f[i]]
With(f, k, v) == [i \in DOMAIN f \cup {k} |-> IF i = k THEN v ELSE f[i]]

StatValue(row) == IF row \in DOMAIN stats THEN stats[row] ELSE 0

Day(t) == t \div 86400

Call(op, u, id, ok, error, amount) ==
    [op |-> op, user |-> u, id |-> id, ok |-> ok, error |-> error, amount |-> amount]

(* Only the responses to requests of a watched verb are kept for inspection. *)
Recorded(call) == IF call.op \in watched THEN call ELSE NoCall

storeVars == <<objects, objParams, objCheckpoints, stats, actionLog, friends, nextId, harvested>>

Reject(op, u, id, error) ==
    /\ lastCall' = Recorded(Call(op, u, id, FALSE, error, 0))
    /\ UNCHANGED storeVars

(* the clock moves to the next instant *)
Tick ==
    /\ \E t \in Instants :
          /\ t > now
          /\ \A x \in Instants : x > now => t <= x
          /\ now' = t
    /\ lastCall' = NoCall
    /\ UNCHANGED <<storeVars, watched, runVars, cropVars, hookVars>>

(* GET /api/plant?crop=..  (crops module, HTTP handler) *)
handlePlant(u, cropCode, rolls, yieldAmount) ==
    /\ IF u = Unauthenticated THEN Reject("plant", u, 0, "Unauthorized")
       ELSE IF ~KnownCrop(cropCode) THEN Reject("plant", u, 0, "Unknown crop")
       ELSE IF StatValue(<<u, "seed", cropCode>>) < 1 THEN Reject("plant", u, 0, "No seeds")
       ELSE LET cps == generateCropCheckpoints(getConfig(cropCode), rolls) IN
            /\ stats' = With(stats, <<u, "seed", cropCode>>, StatValue(<<u, "seed", cropCode>>) - 1)
            /\ objects' = With(objects, nextId,
                               [user_id |-> u, type_code |-> <<"crop", cropCode>>, created_at |-> now])
            /\ objCheckpoints' = With(objCheckpoints, nextId, PersistCheckpoints(cps))
            /\ objParams' = With(objParams, nextId, [k \in {"yield"} |-> String(yieldAmount)])
            /\ nextId' = nextId + 1
            /\ lastCall' = Recorded(Call("plant", u, nextId, TRUE, "", yieldAmount))
            /\ UNCHANGED <<actionLog, friends, harvested>>
    /\ UNCHANGED <<now, watched, runVars, cropVars, hookVars>>

HarvestCheckpoint(id) ==
    LET cps == objCheckpoints[id]
        hit == {i \in 1..Len(cps) : cps[i].action = "harvest"}
    IN IF hit = {} THEN None ELSE Some(cps[CHOOSE i \in hit : \A j \in hit : i <= j])

DeleteObject(id) ==
    /\ objects' = Without(objects, id)
    /\ objCheckpoints' = Without(objCheckpoints, id)
    /\ objParams' = Without(objParams, id)

(* faulty variant: the completing mutation leaves the harvested object in place *)
handleHarvestHttpKeepsObject(u, id) ==
    /\ IF u = Unauthenticated THEN Reject("harvest", u, id, "Unauthorized")
       ELSE IF id = 0 THEN Reject("harvest", u, id, "Missing object id")
       ELSE IF id \notin DOMAIN objects THEN Reject("harvest", u, id, "Object not found")
       ELSE IF objects[id].user_id # u THEN Reject("harvest", u, id, "Not your crop")
       ELSE IF IsNone(HarvestCheckpoint(id)) THEN Reject("harvest", u, id, "No harvest checkpoint")
       ELSE LET cp == HarvestCheckpoint(id)[1]
                created == objects[id].created_at
                code == objects[id].type_code[2]
                yieldAmount == parseInt(getParam(id, "yield"), <<2>>)
                exp == IF KnownCrop(code) /\ getConfig(code).exp # 0 THEN getConfig(code).exp ELSE 5
            IN IF now < created + cp.time_offset THEN Reject("harvest", u, id, "Not ready yet")
               ELSE IF now > created + cp.deadline[1]
               THEN /\ DeleteObject(id)
                    /\ lastCall' = Recorded(Call("harvest", u, id, FALSE, "Withered", 0))
                    /\ UNCHANGED <<stats, actionLog, friends, nextId, harvested>>
               ELSE /\ stats' = With(With(stats, <<u, "item", code>>,
                                          StatValue(<<u, "item", code>>) + yieldAmount),
                                     <<u, "exp", "">>, StatValue(<<u, "exp", "">>) + exp)
                    /\ harvested' = harvested \cup {id}
                    /\ lastCall' = Recorded(Call("harvest", u, id, TRUE, "", yieldAmount))
                    /\ UNCHANGED <<objects, objCheckpoints, objParams, actionLog, friends, nextId>>
    /\ UNCHANGED <<now, watched, runVars, cropVars, hookVars>>

(* GET /api/harvest?id=..  (crops module, HTTP handler) *)
handleHarvestHttp(u, id) ==
    /\ IF u = Unauthenticated THEN Reject("harvest", u, id, "Unauthorized")
       ELSE IF id = 0 THEN Reject("harvest", u, id, "Missing object id")
       ELSE IF id \notin DOMAIN objects THEN Reject("harvest", u, id, "Object not found")
       ELSE IF objects[id].user_id # u THEN Reject("harvest", u, id, "Not your crop")
       ELSE IF IsNone(HarvestCheckpoint(id)) THEN Reject("harvest", u, id, "No harvest checkpoint")
       ELSE LET cp == HarvestCheckpoint(id)[1]
                created == objects[id].created_at
                code == objects[id].type_code[2]
                yieldAmount == parseInt(getParam(id, "yield"), <<2>>)
                exp == IF KnownCrop(code) /\ getConfig(code).exp # 0 THEN getConfig(code).exp ELSE 5
            IN IF now < created + cp.time_offset THEN Reject("harvest", u, id, "Not ready yet")
               ELSE IF now > created + cp.deadline[1]
               THEN /\ DeleteObject(id)
                    /\ lastCall' = Recorded(Call("harvest", u, id, FALSE, "Withered", 0))
                    /\ UNCHANGED <<stats, actionLog, friends, nextId, harvested>>
               ELSE /\ stats' = With(With(stats, <<u, "item", code>>,
                                          StatValue(<<u, "item", code>>) + yieldAmount),
                                     <<u, "exp", "">>, StatValue(<<u, "exp", "">>) + exp)
                    /\ DeleteObject(id)
                    /\ harvested' = harvested \cup {id}
                    /\ lastCall' = Recorded(Call("harvest", u, id, TRUE, "", yieldAmount))
                    /\ UNCHANGED <<actionLog, friends, nextId>>
    /\ UNCHANGED <<now, watched, runVars, cropVars, hookVars>>

ElapsedMs(id) == (now - objects[id].created_at) * 1000

(* handleHarvest of the storage-interface handlers (crops module) *)
handleHarvest(u, id) ==
    /\ IF id \notin DOMAIN objects THEN Reject("harvest", u, id, "Not found")
       ELSE IF objects[id].user_id # u THEN Reject("harvest", u, id, "Not found")
       ELSE LET config == getConfig(objects[id].type_code[2])
                state == getCropState(config, objCheckpoints[id], ElapsedMs(id))
                remaining == parseInt(getParam(id, "yield"), <<0>>)
                             - parseInt(getParam(id, "stolen"), <<0>>)
            IN IF ~state.isReady THEN Reject("harvest", u, id, "Not ready")
               ELSE IF state.isWithered THEN Reject("harvest", u, id, "Withered")
               ELSE /\ stats' = With(With(With(stats,
                                  <<u, "item", config.code>>,
                                      StatValue(<<u, "item", config.code>>) + remaining),
                                  <<u, "silver", "">>,
                                      StatValue(<<u, "silver", "">>) + remaining * config.sell_silver),
                                  <<u, "exp", "">>, StatValue(<<u, "exp", "">>) + config.exp)
                    /\ DeleteObject(id)
                    /\ harvested' = harvested \cup {id}
                    /\ lastCall' = Recorded(Call("harvest", u, id, TRUE, "", remaining))
                    /\ UNCHANGED <<actionLog, friends, nextId>>
    /\ UNCHANGED <<now, watched, runVars, cropVars, hookVars>>

(* countTodayActions / getStealsToday of the storage interface *)
countTodayActions(u, action, target) ==
    Cardinality({i \in 1..Len(actionLog) :
        /\ actionLog[i].user = u
        /\ actionLog[i].action = action
        /\ actionLog[i].target = target
        /\ Day(actionLog[i].at) = Day(now)})

logAction(u, action, id, target) ==
    actionLog' = Append(actionLog, [user |-> u, action |-> action, object |-> id,
                                    target |-> target, at |-> now])

isFriend(u, f) == <<u, f>> \in friends

(* Math.floor(totalYield * config.steal_percent / 100) *)
maxStealable(totalYield, config) == (totalYield * config.steal_percent) \div 100

MAX_STEALS_PER_NEIGHBOR == 3

(* faulty variant: the steal goes through although nothing is left to steal *)
handleStealSocialUnchecked(u, id) ==
    /\ IF id \notin DOMAIN objects THEN Reject("steal_social", u, id, "Not found")
       ELSE IF objects[id].user_id = u THEN Reject("steal_social", u, id, "Cannot steal own crop")
       ELSE IF ~isFriend(u, objects[id].user_id) THEN Reject("steal_social", u, id, "Not a friend")
       ELSE IF countTodayActions(u, "steal", objects[id].user_id) >= MAX_STEALS_PER_NEIGHBOR
       THEN Reject("steal_social", u, id, "Daily limit reached")
       ELSE LET alreadyStolen == parseInt(getParam(id, "stolen"), <<0>>)
                code == objects[id].type_code[2]
            IN /\ objParams' = [objParams EXCEPT ![id] = With(@, "stolen", String(alreadyStolen + 1))]
               /\ stats' = With(stats, <<u, "item", code>>, StatValue(<<u, "item", code>>) + 1)
               /\ logAction(u, "steal", id, objects[id].user_id)
               /\ lastCall' = Recorded(Call("steal_social", u, id, TRUE, "", 1))
               /\ UNCHANGED <<objects, objCheckpoints, friends, nextId, harvested>>
    /\ UNCHANGED <<now, watched, runVars, cropVars, hookVars>>

(* faulty variant: the response carries the running total, not the amount taken *)
handleStealSocialRunningTotal(u, id) ==
    /\ IF id \notin DOMAIN objects THEN Reject("steal_social", u, id, "Not found")
       ELSE IF objects[id].user_id = u THEN Reject("steal_social", u, id, "Cannot steal own crop")
       ELSE IF ~isFriend(u, objects[id].user_id) THEN Reject("steal_social", u, id, "Not a friend")
       ELSE IF countTodayActions(u, "steal", objects[id].user_id) >= MAX_STEALS_PER_NEIGHBOR
       THEN Reject("steal_social", u, id, "Daily limit reached")
       ELSE LET totalYield == parseInt(getParam(id, "yield"), <<0>>)
                alreadyStolen == parseInt(getParam(id, "stolen"), <<0>>)
                code == objects[id].type_code[2]
                canSteal == maxStealable(totalYield, getConfig(code)) - alreadyStolen
            IN IF canSteal <= 0 THEN Reject("steal_social", u, id, "Nothing to steal")
               ELSE /\ objParams' = [objParams EXCEPT ![id] = With(@, "stolen", String(alreadyStolen + 1))]
                    /\ stats' = With(stats, <<u, "item", code>>, StatValue(<<u, "item", code>>) + 1)
                    /\ logAction(u, "steal", id, objects[id].user_id)
                    /\ lastCall' = Recorded(Call("steal_social", u, id, TRUE, "", alreadyStolen + 1))
                    /\ UNCHANGED <<objects, objCheckpoints, friends, nextId, harvested>>
    /\ UNCHANGED <<now, watched, runVars, cropVars, hookVars>>

(* faulty variant: the daily cap compared with > instead of >= *)
handleStealSocialLateCap(u, id) ==
    /\ IF id \notin DOMAIN objects THEN Reject("steal_social", u, id, "Not found")
       ELSE IF objects[id].user_id = u THEN Reject("steal_social", u, id, "Cannot steal own crop")
       ELSE IF ~isFriend(u, objects[id].user_id) THEN Reject("steal_social", u, id, "Not a friend")
       ELSE IF countTodayActions(u, "steal", objects[id].user_id) > MAX_STEALS_PER_NEIGHBOR
       THEN Reject("steal_social", u, id, "Daily limit reached")
       ELSE LET totalYield == parseInt(getParam(id, "yield"), <<0>>)
                alreadyStolen == parseInt(getParam(id, "stolen"), <<0>>)
                code == objects[id].type_code[2]
                canSteal == maxStealable(totalYield, getConfig(code)) - alreadyStolen
            IN IF canSteal <= 0 THEN Reject("steal_social", u, id, "Nothing to steal")
               ELSE /\ objParams' = [objParams EXCEPT ![id] = With(@, "stolen", String(alreadyStolen + 1))]
                    /\ stats' = With(stats, <<u, "item", code>>, StatValue(<<u, "item", code>>) + 1)
                    /\ logAction(u, "steal", id, objects[id].user_id)
                    /\ lastCall' = Recorded(Call("steal_social", u, id, TRUE, "", 1))
                    /\ UNCHANGED <<objects, objCheckpoints, friends, nextId, harvested>>
    /\ UNCHANGED <<now, watched, runVars, cropVars, hookVars>>

(* handleSteal of the social handlers (animals/dog/FSM.ts) *)
handleStealSocial(u, id) ==
    /\ IF id \notin DOMAIN objects THEN Reject("steal_social", u, id, "Not found")
       ELSE IF objects[id].user_id = u THEN Reject("steal_social", u, id, "Cannot steal own crop")
       ELSE IF ~isFriend(u, objects[id].user_id) THEN Reject("steal_social", u, id, "Not a friend")
       ELSE IF countTodayActions(u, "steal", objects[id].user_id) >= MAX_STEALS_PER_NEIGHBOR
       THEN Reject("steal_social", u, id, "Daily limit reached")
       ELSE LET totalYield == parseInt(getParam(id, "yield"), <<0>>)
                alreadyStolen == parseInt(getParam(id, "stolen"), <<0>>)
                code == objects[id].type_code[2]
                canSteal == maxStealable(totalYield, getConfig(code)) - alreadyStolen
            IN IF canSteal <= 0 THEN Reject("steal_social", u, id, "Nothing to steal")
               ELSE /\ objParams' = [objParams EXCEPT ![id] = With(@, "stolen", String(alreadyStolen + 1))]
                    /\ stats' = With(stats, <<u, "item", code>>, StatValue(<<u, "item", code>>) + 1)
                    /\ logAction(u, "steal", id, objects[id].user_id)
                    /\ lastCall' = Recorded(Call("steal_social", u, id, TRUE, "", 1))
                    /\ UNCHANGED <<objects, objCheckpoints, friends, nextId, harvested>>
    /\ UNCHANGED <<now, watched, runVars, cropVars, hookVars>>

Min(a, b) == IF a < b THEN a ELSE b

(* handleSteal of the crops module *)
handleSteal(u, id) ==
    /\ IF id \notin DOMAIN objects THEN Reject("steal", u, id, "Not found")
       ELSE IF objects[id].user_id = u THEN Reject("steal", u, id, "Cannot steal from yourself")
       ELSE LET config == getConfig(objects[id].type_code[2])
                state == getCropState(config, objCheckpoints[id], ElapsedMs(id))
                totalYield == parseInt(getParam(id, "yield"), <<0>>)
                alreadyStolen == parseInt(getParam(id, "stolen"), <<0>>)
                remaining == maxStealable(totalYield, config) - alreadyStolen
                stolen == Min(remaining, 1)
            IN IF ~state.isReady THEN Reject("steal", u, id, "Not ready")
               ELSE IF state.isWithered THEN Reject("steal", u, id, "Withered")
               ELSE IF countTodayActions(u, "steal", objects[id].user_id) >= 3
               THEN Reject("steal", u, id, "Daily limit reached")
               ELSE IF remaining <= 0 THEN Reject("steal", u, id, "Nothing left to steal")
               ELSE /\ objParams' = [objParams EXCEPT
                                        ![id] = With(@, "stolen", String(alreadyStolen + stolen))]
                    /\ stats' = With(stats, <<u, "item", config.code>>,
                                     StatValue(<<u, "item", config.code>>) + stolen)
                    /\ logAction(u, "steal", id, objects[id].user_id)
                    /\ lastCall' = Recorded(Call("steal", u, id, TRUE, "", stolen))
                    /\ UNCHANGED <<objects, objCheckpoints, friends, nextId, harvested>>
    /\ UNCHANGED <<now, watched, runVars, cropVars, hookVars>>

(* handleAddFriend of the social handlers *)
handleAddFriend(u, f) ==
    /\ IF u = f THEN Reject("add_friend", u, 0, "Cannot add yourself")
       ELSE IF f \notin Users THEN Reject("add_friend", u, 0, "User not found")
       ELSE IF isFriend(u, f) THEN Reject("add_friend", u, 0, "Already friends")
       ELSE /\ friends' = friends \cup {<<u, f>>}
            /\ lastCall' = Recorded(Call("add_friend", u, 0, TRUE, "", 0))
            /\ UNCHANGED <<objects, objParams, objCheckpoints, stats, actionLog, nextId, harvested>>
    /\ UNCHANGED <<now, watched, runVars, cropVars, hookVars>>

(* The farmer "1" starts with one seed of each crop; "2" and "3" own none. *)
GameInit ==
    /\ CropIdle
    /\ HookIdle
    /\ now = 0
    /\ objects = <<>>
    /\ objCheckpoints = <<>>
    /\ objParams = <<>>
    /\ stats = [row \in {<<"1", "seed", "tomato">>, <<"1", "seed", "wheat">>} |-> 1]
    /\ actionLog = <<>>
    /\ friends = {}
    /\ nextId = 1
    /\ harvested = {}
    /\ lastCall = NoCall
    /\ watched = {"harvest"}
    /\ RunIdle

ObjectIds == 1..2
Thieves == {"2", "3"}

Plant ==
    \E u \in {"0", "1", "2"}, code \in CropCodes :
        \E y \in (IF KnownCrop(code) THEN getConfig(code).yield[1]..getConfig(code).yield[2]
                  ELSE {0}) :
           handlePlant(u, code, [i \in 1..4 |-> 5], y)

(* Steals and friendships on the planted crops. *)
StealNext ==
    \/ Tick
    \/ Plant
    \/ \E u \in Users, id \in ObjectIds : handleStealSocial(u, id)
    \/ \E u \in Users, id \in ObjectIds : handleSteal(u, id)
    \/ \E u \in Thieves, f \in {"1", "2", "9"} : handleAddFriend(u, f)

SpecSteal == GameInit /\ [][StealNext]_vars

(* Harvests of the planted crops, through either harvest handler. *)
HarvestNext ==
    \/ Tick
    \/ Plant
    \/ \E u \in {"0", "1", "2"}, id \in 0..2 : handleHarvestHttp(u, id)
    \/ \E u \in {"1", "2"}, id \in ObjectIds : handleHarvest(u, id)

SpecHarvest == GameInit /\ [][HarvestNext]_vars

StolenOf(id) == parseInt(getParam(id, "stolen"), <<0>>)
StealsLogged(id) ==
    {i \in 1..Len(actionLog) : actionLog[i].action = "steal" /\ actionLog[i].object = id}

(* C1: whatever steal calls were made on a crop object, by whichever       *)
(* actors and at whichever times, its `stolen` param (and the number of    *)
(* steals logged against it) is at most floor(yield * steal_percent / 100). *)
C1_StealBounded ==
    \A id \in DOMAIN objects :
        LET limit == (parseInt(getParam(id, "yield"), <<0>>)
                      * getConfig(objects[id].type_code[2]).steal_percent) \div 100
        IN /\ StolenOf(id) <= limit
           /\ Cardinality(StealsLogged(id)) <= limit

C1_Witness ==
    \E id \in DOMAIN objects :
        /\ objects[id].type_code[2] = "tomato"
        /\ StolenOf(id) = 2
        /\ {actionLog[i].user : i \in StealsLogged(id)} = Thieves
        /\ \E other \in DOMAIN objects :
              /\ objParams[other]["yield"] = String(3)
              /\ StolenOf(other) = 1

NotFound == {"Not found", "Object not found"}

(* C2: once a harvest call on an object has succeeded the object is gone,  *)
(* and every later harvest call on that object id is rejected, as `not     *)
(* found` for every actor the handler admits, and credits no items and no  *)
(* experience.                                                              *)
C2_HarvestOnce ==
    [][/\ \A id \in harvested' : id \notin DOMAIN objects'
       /\ \A id \in harvested :
             (lastCall'.op = "harvest" /\ lastCall'.id = id) =>
                 /\ ~lastCall'.ok
                 /\ stats' = stats
                 /\ lastCall'.user # Unauthenticated => lastCall'.error \in NotFound]_vars

C2_Witness ==
    /\ lastCall.op = "harvest"
    /\ lastCall.id \in harvested
    /\ lastCall.user = "1"
    /\ ~lastCall.ok
    /\ lastCall.error = "Object not found"
    /\ StatValue(<<"1", "item", "tomato">>) = 10

----------------------------------------------------------------------------
(* One tomato crop (yield 10, steal_percent 20) with every response kept:   *)
(* plant, friendships, steals through both handlers, harvests.              *)

SocialInit ==
    /\ CropIdle
    /\ HookIdle
    /\ now = 0
    /\ objects = <<>>
    /\ objCheckpoints = <<>>
    /\ objParams = <<>>
    /\ stats = [row \in {<<"1", "seed", "tomato">>} |-> 1]
    /\ actionLog = <<>>
    /\ friends = {}
    /\ nextId = 1
    /\ harvested = {}
    /\ lastCall = NoCall
    /\ watched = {"steal", "steal_social", "harvest"}
    /\ RunIdle

SocialNext ==
    \/ Tick
    \/ Plant
    \/ \E u \in Users, id \in ObjectIds : handleStealSocial(u, id)
    \/ \E u \in Users, id \in ObjectIds : handleSteal(u, id)
    \/ \E u \in Thieves, f \in {"1", "9"} : handleAddFriend(u, f)
    \/ \E u \in {"1", "2"}, id \in ObjectIds : handleHarvestHttp(u, id)
    \/ \E u \in {"1", "2"}, id \in ObjectIds : handleHarvest(u, id)

SpecSocial == SocialInit /\ [][SocialNext]_vars

StealVerbs == {"steal", "steal_social"}

(* the crop of the steal scenario: yield 10 at 20 percent, 2 stealable *)
ScenarioCrop(id) ==
    /\ id \in DOMAIN objects
    /\ objects[id].type_code[2] = "tomato"
    /\ getParam(id, "yield") = Some(String(10))

----------------------------------------------------------------------------
StealsOn(log, u, o, d) ==
    {i \in 1..Len(log) :
        /\ log[i].action = "steal"
        /\ log[i].user = u
        /\ log[i].target = o
        /\ Day(log[i].at) = d}

StolenParam(params, id) ==
    IF id \in DOMAIN params /\ "stolen" \in DOMAIN params[id]
    THEN ParseDigits(params[id]["stolen"], 1, 0) ELSE 0

C14_HarvestRemainder ==
    (lastCall.op = "harvest" /\ lastCall.ok) =>
        /\ lastCall.amount = ScenarioConfig.yield[2] - Cardinality(StealsLogged(lastCall.id))
        /\ StatValue(<<"1", "item", "tomato">>) + StatValue(<<"2", "item", "tomato">>)
             + StatValue(<<"3", "item", "tomato">>) <= ScenarioConfig.yield[2]


DerivedState(id) ==
    getCropState(getConfig(objects[id].type_code[2]), objCheckpoints[id], ElapsedMs(id))

(* C15: a harvest call by the owner on an object the deriver reports as     *)
(* withered deletes the object, credits no items and no experience, and is  *)
(* answered `Withered` with harvested 0.                                    *)
C15_WitheredHarvest ==
    [][\A id \in DOMAIN objects :
          (/\ lastCall'.op = "harvest"
           /\ lastCall'.id = id
           /\ lastCall'.user = objects[id].user_id
           /\ DerivedState(id).isWithered) =>
              /\ id \notin DOMAIN objects'
              /\ stats' = stats
              /\ ~lastCall'.ok
              /\ lastCall'.error = "Withered"
              /\ lastCall'.amount = 0]_vars

(* C16: a harvest call is accepted (items credited, object deleted) only    *)
(* when the deriver, applied to the object's creation time, config and      *)
(* checkpoints at the time of the call, reports ready and not withered; so  *)
(* never while an undone water or remove_pest checkpoint is due.            *)
C16_HarvestWhenReady ==
    [][\A id \in DOMAIN objects :
          (lastCall'.op = "harvest" /\ lastCall'.id = id /\ lastCall'.ok) =>
              /\ DerivedState(id).isReady
              /\ ~DerivedState(id).isWithered
              /\ DerivedState(id).needsAction \notin {Some("water"), Some("remove_pest")}]_vars

(* C17: a successful plant takes exactly one seed of the crop code from the *)
(* actor, who had at least one, and creates exactly one object carrying the *)
(* generated checkpoint set, a `yield` param within the config's [min,max]  *)
(* and a `stolen` param equal to 0; nothing is planted without a seed.      *)
C17_PlantContract ==
    [][nextId' # nextId =>
          \E u \in Users, config \in GameConfigs :
              LET seeds == <<u, "seed", config.code>> IN
              /\ StatValue(seeds) >= 1
              /\ stats' = With(stats, seeds, StatValue(seeds) - 1)
              /\ DOMAIN objects' = DOMAIN objects \cup {nextId}
              /\ nextId \notin DOMAIN objects
              /\ objects'[nextId].user_id = u
              /\ \E rolls \in SeqsOfLen(Draws, 4) :
                    objCheckpoints'[nextId] =
                        PersistCheckpoints(generateCropCheckpoints(config, rolls))
              /\ "yield" \in DOMAIN objParams'[nextId]
              /\ ParseDigits(objParams'[nextId]["yield"], 1, 0) \in config.yield[1]..config.yield[2]
              /\ "stolen" \in DOMAIN objParams'[nextId]
              /\ objParams'[nextId]["stolen"] = String(0)]_vars

----------------------------------------------------------------------------
(* Care of a planted crop: watering, pest removal, pests thrown by others.  *)

(* db.completeCheckpoint(objectId, action, doneBy) of the storage interface: *)
(* the first undone checkpoint of that action that is due, 0 when none.      *)
RECURSIVE PendingOf(_, _, _, _)
PendingOf(cps, action, elapsed, i) ==
    IF i > Len(cps) THEN 0
    ELSE IF cps[i].action = action /\ IsNone(cps[i].done_at) /\ cps[i].time_offset <= elapsed
    THEN i
    ELSE PendingOf(cps, action, elapsed, i + 1)

Elapsed(id) == now - objects[id].created_at

completeCheckpoint(id, action) ==
    LET i == PendingOf(objCheckpoints[id], action, Elapsed(id), 1)
    IN objCheckpoints' = [objCheckpoints EXCEPT ![id][i].done_at = Some(now)]

addExp(u, amount) ==
    stats' = With(stats, <<u, "exp", "">>, StatValue(<<u, "exp", "">>) + amount)

(* handleWater of the crops module *)
handleWater(u, id) ==
    /\ IF id \notin DOMAIN objects THEN Reject("water", u, id, "Not found")
       ELSE IF PendingOf(objCheckpoints[id], "water", Elapsed(id), 1) = 0
       THEN Reject("water", u, id, "No water needed")
       ELSE /\ completeCheckpoint(id, "water")
            /\ IF objects[id].user_id # u THEN addExp(u, 5) ELSE stats' = stats
            /\ lastCall' = Recorded(Call("water", u, id, TRUE, "", 0))
            /\ UNCHANGED <<objects, objParams, actionLog, friends, nextId, harvested>>
    /\ UNCHANGED <<now, watched, runVars, cropVars, hookVars>>

(* handleRemovePest of the crops module *)
handleRemovePest(u, id) ==
    /\ IF id \notin DOMAIN objects THEN Reject("remove_pest", u, id, "Not found")
       ELSE IF PendingOf(objCheckpoints[id], "remove_pest", Elapsed(id), 1) = 0
       THEN Reject("remove_pest", u, id, "No pest")
       ELSE /\ completeCheckpoint(id, "remove_pest")
            /\ addExp(u, 3)
            /\ lastCall' = Recorded(Call("remove_pest", u, id, TRUE, "", 0))
            /\ UNCHANGED <<objects, objParams, actionLog, friends, nextId, harvested>>
    /\ UNCHANGED <<now, watched, runVars, cropVars, hookVars>>

(* faulty variant: the row is stored with the deadline as its time_offset *)
ThrownPestLater(elapsed) ==
    [time_offset |-> elapsed + PestDeadline, action |-> "remove_pest",
     deadline |-> Some(elapsed + PestDeadline + PestDeadline), done_at |-> None]

ThrownPest(elapsed) ==
    [time_offset |-> elapsed, action |-> "remove_pest", deadline |-> Some(elapsed + PestDeadline),
     done_at |-> None]

MAX_PESTS_PER_NEIGHBOR == 2

(* handleThrowPest of the crops module *)
handleThrowPest(u, id) ==
    /\ IF id \notin DOMAIN objects THEN Reject("throw_pest", u, id, "Not found")
       ELSE IF objects[id].user_id = u
       THEN Reject("throw_pest", u, id, "Cannot throw pest on yourself")
       ELSE IF DerivedState(id).isReady \/ DerivedState(id).isWithered
       THEN Reject("throw_pest", u, id, "Too late")
       ELSE IF DerivedState(id).needsAction = Some("remove_pest")
       THEN Reject("throw_pest", u, id, "Already has pest")
       ELSE IF countTodayActions(u, "throw_pest", objects[id].user_id) >= 2
       THEN Reject("throw_pest", u, id, "Daily limit reached")
       ELSE /\ objCheckpoints' = [objCheckpoints EXCEPT ![id] = Append(@, ThrownPest(Elapsed(id)))]
            /\ logAction(u, "throw_pest", id, objects[id].user_id)
            /\ lastCall' = Recorded(Call("throw_pest", u, id, TRUE, "", 0))
            /\ UNCHANGED <<objects, objParams, stats, friends, nextId, harvested>>
    /\ UNCHANGED <<now, watched, runVars, cropVars, hookVars>>

hasPest(id) ==
    \E i \in 1..Len(objCheckpoints[id]) :
        objCheckpoints[id][i].action = "remove_pest" /\ IsNone(objCheckpoints[id][i].done_at)

(* handleThrowPest of the social handlers (animals/dog/FSM.ts) *)
handleThrowPestSocial(u, id) ==
    /\ IF id \notin DOMAIN objects THEN Reject("throw_pest_social", u, id, "Not found")
       ELSE IF objects[id].user_id = u
       THEN Reject("throw_pest_social", u, id, "Cannot throw pest on own crop")
       ELSE IF ~isFriend(u, objects[id].user_id)
       THEN Reject("throw_pest_social", u, id, "Not a friend")
       ELSE IF countTodayActions(u, "throw_pest", objects[id].user_id) >= MAX_PESTS_PER_NEIGHBOR
       THEN Reject("throw_pest_social", u, id, "Daily limit reached")
       ELSE IF hasPest(id) THEN Reject("throw_pest_social", u, id, "Already has pest")
       ELSE /\ objCheckpoints' = [objCheckpoints EXCEPT ![id] = Append(@, ThrownPest(Elapsed(id)))]
            /\ logAction(u, "throw_pest", id, objects[id].user_id)
            /\ lastCall' = Recorded(Call("throw_pest_social", u, id, TRUE, "", 0))
            /\ UNCHANGED <<objects, objParams, stats, friends, nextId, harvested>>
    /\ UNCHANGED <<now, watched, runVars, cropVars, hookVars>>

(* One tomato seed; user "2" is already a friend of the farmer "1". *)
CareInit ==
    /\ CropIdle
    /\ HookIdle
    /\ now = 0
    /\ objects = <<>>
    /\ objCheckpoints = <<>>
    /\ objParams = <<>>
    /\ stats = [row \in {<<"1", "seed", "tomato">>} |-> 1]
    /\ actionLog = <<>>
    /\ friends = {<<"2", "1">>}
    /\ nextId = 1
    /\ harvested = {}
    /\ lastCall = NoCall
    /\ watched = {"water", "remove_pest"}
    /\ RunIdle

(* a plant whose random draws give every pest and water checkpoint, or none *)
CarePlant ==
    \E u \in {"1", "2"}, draw \in Draws :
        handlePlant(u, "tomato", [i \in 1..4 |-> draw], 10)

CareNext ==
    \/ Tick
    \/ CarePlant
    \/ \E u \in {"1", "2"} : handleWater(u, 1)
    \/ \E u \in {"1", "2"} : handleRemovePest(u, 1)

SpecCare == CareInit /\ [][CareNext]_vars

ExpOf(st, u) == IF <<u, "exp", "">> \in DOMAIN st THEN st[<<u, "exp", "">>] ELSE 0

(* C18: a successful water call gives the actor +5 experience, and a        *)
(* successful remove-pest call +3, exactly when the actor is not the owner  *)
(* of the object; the owner gets no experience for either.                  *)
C18_CareBonus ==
    [][\A id \in DOMAIN objects :
          (lastCall'.op \in {"water", "remove_pest"} /\ lastCall'.id = id /\ lastCall'.ok) =>
              LET u == lastCall'.user
                  bonus == IF lastCall'.op = "water" THEN 5 ELSE 3
              IN ExpOf(stats', u) - ExpOf(stats, u)
                    = IF u # objects[id].user_id THEN bonus ELSE 0]_vars

(* Pests thrown at the one tomato crop, and removed by its owner. *)
PestInit ==
    /\ CropIdle
    /\ HookIdle
    /\ now = 0
    /\ objects = <<>>
    /\ objCheckpoints = <<>>
    /\ objParams = <<>>
    /\ stats = [row \in {<<"1", "seed", "tomato">>} |-> 1]
    /\ actionLog = <<>>
    /\ friends = {<<"2", "1">>}
    /\ nextId = 1
    /\ harvested = {}
    /\ lastCall = NoCall
    /\ watched = {"throw_pest", "throw_pest_social"}
    /\ RunIdle

PestNext ==
    \/ Tick
    \/ CarePlant
    \/ handleRemovePest("1", 1)
    \/ \E u \in Users : handleThrowPest(u, 1)
    \/ \E u \in Users : handleThrowPestSocial(u, 1)

SpecPest == PestInit /\ [][PestNext]_vars

ThrowVerbs == {"throw_pest", "throw_pest_social"}

(* undone remove_pest checkpoints of an object that a throw-pest call inserted *)
ThrownUndone(cps, log, id, created) ==
    {i \in 1..Len(cps) :
        /\ cps[i].action = "remove_pest"
        /\ IsNone(cps[i].done_at)
        /\ \E k \in 1..Len(log) :
              /\ log[k].action = "throw_pest"
              /\ log[k].object = id
              /\ log[k].at - created = cps[i].time_offset}

(* C19: a throw-pest call succeeds only when the actor does not own the     *)
(* object, the object is neither ready nor withered, and it holds no undone *)
(* remove_pest checkpoint; the checkpoint it inserts has time_offset equal  *)
(* to the elapsed time at the call and deadline time_offset + 600; so an    *)
(* object never holds more than one undone thrown pest.                     *)
C19_ThrowPest ==
    [][\A id \in DOMAIN objects :
          (lastCall'.op \in ThrowVerbs /\ lastCall'.id = id /\ lastCall'.ok) =>
              /\ lastCall'.user # objects[id].user_id
              /\ ~DerivedState(id).isReady
              /\ ~DerivedState(id).isWithered
              /\ ~hasPest(id)
              /\ objCheckpoints'[id] = Append(objCheckpoints[id],
                     [time_offset |-> Elapsed(id), action |-> "remove_pest",
                      deadline |-> Some(Elapsed(id) + 600), done_at |-> None])
              /\ Cardinality(ThrownUndone(objCheckpoints'[id], actionLog', id,
                                          objects[id].created_at)) <= 1]_vars

----------------------------------------------------------------------------
(* The HTTP shell's own plant and harvest handlers (index.ts), and a crop   *)
(* whose config has wither_time = 0.                                        *)

(* GET /api/plant?crop=..  (handlePlantCrop): the shell's generator, each   *)
(* checkpoint stored with deadline `cp.deadline || (cp.time_offset + 1800)` *)
handlePlantCrop(u, cropCode, rolls, yieldAmount) ==
    /\ IF u = Unauthenticated THEN Reject("plant", u, 0, "Unauthorized")
       ELSE IF ~KnownCrop(cropCode) THEN Reject("plant", u, 0, "Unknown crop")
       ELSE IF StatValue(<<u, "seed", cropCode>>) < 1 THEN Reject("plant", u, 0, "No seeds")
       ELSE LET cps == generateCropCheckpointsIndex(getConfig(cropCode), rolls) IN
            /\ stats' = With(stats, <<u, "seed", cropCode>>, StatValue(<<u, "seed", cropCode>>) - 1)
            /\ objects' = With(objects, nextId,
                               [user_id |-> u, type_code |-> <<"crop", cropCode>>, created_at |-> now])
            /\ objCheckpoints' = With(objCheckpoints, nextId, PersistCheckpoints(cps))
            /\ objParams' = With(objParams, nextId, [k \in {"yield"} |-> String(yieldAmount)])
            /\ nextId' = nextId + 1
            /\ lastCall' = Recorded(Call("plant", u, nextId, TRUE, "", yieldAmount))
            /\ UNCHANGED <<actionLog, friends, harvested>>
    /\ UNCHANGED <<now, watched, runVars, cropVars, hookVars>>

(* GET /api/harvest?id=..  (handleHarvestCrop): the same steps as the crops *)
(* module's HTTP handler                                                    *)
handleHarvestCrop(u, id) == handleHarvestHttp(u, id)

(* The farmer "1" holds one wheat seed (wither_time = 0). *)
WitherInit ==
    /\ CropIdle
    /\ HookIdle
    /\ now = 0
    /\ objects = <<>>
    /\ objCheckpoints = <<>>
    /\ objParams = <<>>
    /\ stats = [row \in {<<"1", "seed", "wheat">>} |-> 1]
    /\ actionLog = <<>>
    /\ friends = {}
    /\ nextId = 1
    /\ harvested = {}
    /\ lastCall = NoCall
    /\ watched = {"harvest"}
    /\ RunIdle

WitherNext ==
    \/ Tick
    \/ \E u \in {"1", "2"}, y \in NoWitherConfig.yield[1]..NoWitherConfig.yield[2] :
          handlePlant(u, "wheat", [i \in 1..4 |-> 5], y)
    \/ \E u \in {"1", "2"}, y \in NoWitherConfig.yield[1]..NoWitherConfig.yield[2] :
          handlePlantCrop(u, "wheat", [i \in 1..2 |-> 5], y)
    \/ handleWater("1", 1)
    \/ handleRemovePest("1", 1)
    \/ \E u \in {"1", "2"} : handleHarvestCrop(u, 1)
    \/ \E u \in {"1", "2"} : handleHarvest(u, 1)

SpecWither == WitherInit /\ [][WitherNext]_vars

RECURSIVE Sum(_, _)
Sum(s, i) == IF i > Len(s) THEN 0 ELSE s[i] + Sum(s, i + 1)

(* growth is complete and every water / remove_pest checkpoint is done *)
GrownAndTended(id) ==
    /\ Elapsed(id) >= Sum(getConfig(objects[id].type_code[2]).stage_times, 1)
    /\ \A i \in 1..Len(objCheckpoints[id]) :
          objCheckpoints[id][i].action \in {"water", "remove_pest"} =>
              ~IsNone(objCheckpoints[id][i].done_at)

(* C20: a crop whose config has wither_time = 0 never withers through its   *)
(* harvest checkpoint: once growth is complete and all water / remove_pest  *)
(* checkpoints are done, the deriver does not report it withered, and no    *)
(* harvest call by the owner is answered `Withered` or deletes the object   *)
(* without crediting it.                                                    *)
C20_NeverWithers ==
    [][\A id \in DOMAIN objects :
          (getConfig(objects[id].type_code[2]).wither_time = 0 /\ GrownAndTended(id)) =>
              /\ ~DerivedState(id).isWithered
              /\ (/\ lastCall'.op = "harvest"
                  /\ lastCall'.id = id
                  /\ lastCall'.user = objects[id].user_id) =>
                    /\ lastCall'.error # "Withered"
                    /\ id \notin DOMAIN objects' => lastCall'.ok]_vars

----------------------------------------------------------------------------
(* Animals (animals/FSM.ts): an animal is a game object whose `stage` and   *)
(* `ready_at` params are written by feed and collect.                       *)

CowConfig ==
    [code |-> "cow", feed_interval |-> 3600, buy_silver |-> 100,
     products |-> <<[code |-> "milk", count |-> 1]>>]

AnimalConfigs == {CowConfig}
KnownAnimal(code) == \E c \in AnimalConfigs : c.code = code
getAnimalConfig(code) == CHOOSE c \in AnimalConfigs : c.code = code

MaxFeeds == 2
MaxItems == 2

Methods == {"GET", "POST"}

(* POST /api/buy_animal *)
handleBuy(method, u, code) ==
    /\ IF method # "POST" THEN Reject("buy", u, 0, "Method Not Allowed")
       ELSE IF u = Unauthenticated THEN Reject("buy", u, 0, "Unauthorized")
       ELSE IF ~KnownAnimal(code) THEN Reject("buy", u, 0, "Animal config not found")
       ELSE IF StatValue(<<u, "silver", "">>) < getAnimalConfig(code).buy_silver
       THEN Reject("buy", u, 0, "Not enough silver")
       ELSE /\ stats' = With(stats, <<u, "silver", "">>,
                             StatValue(<<u, "silver", "">>) - getAnimalConfig(code).buy_silver)
            /\ objects' = With(objects, nextId,
                               [user_id |-> u, type_code |-> <<"animal", code>>, created_at |-> now])
            /\ objParams' = With(objParams, nextId, [k \in {"stage"} |-> "hungry"])
            /\ objCheckpoints' = With(objCheckpoints, nextId, <<>>)
            /\ nextId' = nextId + 1
            /\ lastCall' = Recorded(Call("buy", u, nextId, TRUE, "", 0))
            /\ UNCHANGED <<actionLog, friends, harvested>>
    /\ UNCHANGED <<now, watched, runVars, cropVars, hookVars>>

(* POST /api/feed_animal *)
handleFeed(method, u, id) ==
    /\ IF method # "POST" THEN Reject("feed", u, id, "Method Not Allowed")
       ELSE IF u = Unauthenticated THEN Reject("feed", u, id, "Unauthorized")
       ELSE IF id \notin DOMAIN objects THEN Reject("feed", u, id, "Animal not found")
       ELSE IF ~KnownAnimal(objects[id].type_code[2])
       THEN Reject("feed", u, id, "Animal config not found")
       ELSE LET animalCfg == getAnimalConfig(objects[id].type_code[2])
                feedInterval == IF animalCfg.feed_interval = 0 THEN 3600
                                ELSE animalCfg.feed_interval
                readyAt == now + feedInterval
            IN /\ Len(objCheckpoints[id]) < MaxFeeds
               /\ objParams' = [objParams EXCEPT
                                   ![id] = With(With(@, "stage", "fed"), "ready_at", String(readyAt))]
               /\ objCheckpoints' = [objCheckpoints EXCEPT
                                        ![id] = Append(@, [time_offset |-> feedInterval,
                                                           action |-> "ready",
                                                           deadline |-> Some(readyAt + 3600),
                                                           done_at |-> None])]
               /\ lastCall' = Recorded(Call("feed", u, id, TRUE, "", readyAt))
               /\ UNCHANGED <<objects, stats, actionLog, friends, nextId, harvested>>
    /\ UNCHANGED <<now, watched, runVars, cropVars, hookVars>>

(* POST /api/collect_animal *)
handleCollect(method, u, id) ==
    /\ IF method # "POST" THEN Reject("collect", u, id, "Method Not Allowed")
       ELSE IF u = Unauthenticated THEN Reject("collect", u, id, "Unauthorized")
       ELSE IF id \notin DOMAIN objects THEN Reject("collect", u, id, "Animal not found")
       ELSE IF ~KnownAnimal(objects[id].type_code[2])
       THEN Reject("collect", u, id, "Animal config not found")
       ELSE LET animalCfg == getAnimalConfig(objects[id].type_code[2]) IN
            IF animalCfg.products = <<>>
            THEN Reject("collect", u, id, "No products defined for animal")
            ELSE LET product == animalCfg.products[1]
                     count == IF product.count = 0 THEN 1 ELSE product.count
                     row == <<u, "item", product.code>>
                 IN /\ StatValue(row) < MaxItems
                    /\ stats' = With(stats, row, StatValue(row) + count)
                    /\ objParams' = [objParams EXCEPT ![id] = With(@, "stage", "hungry")]
                    /\ lastCall' = Recorded(Call("collect", u, id, TRUE, "", product.count))
                    /\ UNCHANGED <<objects, objCheckpoints, actionLog, friends, nextId, harvested>>
    /\ UNCHANGED <<now, watched, runVars, cropVars, hookVars>>

(* The farmer "1" holds the price of one cow. *)
AnimalInit ==
    /\ CropIdle
    /\ HookIdle
    /\ now = 0
    /\ objects = <<>>
    /\ objCheckpoints = <<>>
    /\ objParams = <<>>
    /\ stats = [row \in {<<"1", "silver", "">>} |-> 100]
    /\ actionLog = <<>>
    /\ friends = {}
    /\ nextId = 1
    /\ harvested = {}
    /\ lastCall = NoCall
    /\ watched = {"feed", "collect"}
    /\ RunIdle

AnimalNext ==
    \/ Tick
    \/ \E mt \in Methods, u \in {"0", "1"}, code \in {"cow", "yak"} : handleBuy(mt, u, code)
    \/ \E mt \in Methods, u \in {"0", "1"}, id \in ObjectIds : handleFeed(mt, u, id)
    \/ \E mt \in Methods, u \in {"0", "1"}, id \in ObjectIds : handleCollect(mt, u, id)

SpecAnimal == AnimalInit /\ [][AnimalNext]_vars

StageOf(params, id) == params[id]["stage"]

(* C21: feed is accepted only when the animal is hungry; collect is accepted *)
(* only when the animal is fed and its ready time has passed; the stage      *)
(* changes only hungry -> fed (by feed) and fed -> hungry (by collect), so   *)
(* each accepted feed yields at most one collect.                            *)
C21_AnimalCycle ==
    [][\A id \in DOMAIN objects :
          /\ (lastCall'.op = "feed" /\ lastCall'.id = id /\ lastCall'.ok) =>
                StageOf(objParams, id) = "hungry"
          /\ (lastCall'.op = "collect" /\ lastCall'.id = id /\ lastCall'.ok) =>
                /\ StageOf(objParams, id) = "fed"
                /\ now >= ParseDigits(objParams[id]["ready_at"], 1, 0)]_vars

----------------------------------------------------------------------------
(* Factories (factories/FSM.ts): one factory object per user and factory    *)
(* code, found or created by start-production.                              *)

JuiceConfig ==
    [code |-> "juicer",
     recipes |-> <<[code |-> "tomato_juice", time |-> 100, exp |-> 10,
                    inputs |-> <<[item |-> "tomato", count |-> 1]>>,
                    products |-> <<[code |-> "juice", count |-> 1]>>]>>]

FactoryConfigs == {JuiceConfig}
KnownFactory(code) == \E c \in FactoryConfigs : c.code = code
getFactoryConfig(code) == CHOOSE c \in FactoryConfigs : c.code = code

(* factoryCfg.recipes?.find(r => r.code === recipeCode): index, 0 when none *)
RECURSIVE FindRecipe(_, _, _)
FindRecipe(recipes, recipeCode, i) ==
    IF i > Len(recipes) THEN 0
    ELSE IF recipes[i].code = recipeCode THEN i
    ELSE FindRecipe(recipes, recipeCode, i + 1)

ParamOr(params, key, fallback) ==
    IF key \in DOMAIN params THEN params[key] ELSE fallback

getFactoryState(cps, params) ==
    IF \E i \in 1..Len(cps) : cps[i].action = "ready" /\ IsNone(cps[i].done_at)
    THEN IF now >= ParseDigits(ParamOr(params, "ready_at", <<0>>), 1, 0)
         THEN "ready" ELSE "processing"
    ELSE "idle"

(* game_objects(where: user_id, type_code = factory_<code>)[0] *)
FactoriesOf(u, factoryCode) ==
    {id \in DOMAIN objects :
        objects[id].user_id = u /\ objects[id].type_code = <<"factory", factoryCode>>}

FirstOf(S) == CHOOSE id \in S : \A other \in S : id <= other

(* the ingredient loop: every input is read and checked in turn, and its    *)
(* new count queued for the final mutation                                  *)
RECURSIVE Ingredients(_, _, _, _)
Ingredients(u, inputs, i, queued) ==
    IF i > Len(inputs) THEN [ok |-> TRUE, writes |-> queued]
    ELSE LET row == <<u, "item", inputs[i].item>>
         IN IF StatValue(row) < inputs[i].count THEN [ok |-> FALSE, writes |-> queued]
            ELSE Ingredients(u, inputs, i + 1,
                             Append(queued, [row |-> row, value |-> StatValue(row) - inputs[i].count]))

RECURSIVE Products(_, _, _, _)
Products(u, products, i, queued) ==
    IF i > Len(products) THEN queued
    ELSE LET row == <<u, "item", products[i].code>>
         IN Products(u, products, i + 1,
                     Append(queued, [row |-> row, value |-> StatValue(row) + products[i].count]))

RECURSIVE ApplyWrites(_, _, _)
ApplyWrites(st, writes, i) ==
    IF i > Len(writes) THEN st
    ELSE ApplyWrites(With(st, writes[i].row, writes[i].value), writes, i + 1)

(* POST /api/start_production *)
handleStart(method, u, factoryCode, recipeCode) ==
    /\ IF method # "POST" THEN Reject("start", u, 0, "Method Not Allowed")
       ELSE IF u = Unauthenticated THEN Reject("start", u, 0, "Unauthorized")
       ELSE IF ~KnownFactory(factoryCode) THEN Reject("start", u, 0, "Factory config not found")
       ELSE IF FindRecipe(getFactoryConfig(factoryCode).recipes, recipeCode, 1) = 0
       THEN Reject("start", u, 0, "Recipe not found")
       ELSE LET factoryCfg == getFactoryConfig(factoryCode)
                recipe == factoryCfg.recipes[FindRecipe(factoryCfg.recipes, recipeCode, 1)]
                paid == Ingredients(u, recipe.inputs, 1, <<>>)
                found == FactoriesOf(u, factoryCode)
                factoryId == IF found = {} THEN nextId ELSE FirstOf(found)
                readyAt == now + recipe.time
                params == IF found = {} THEN <<>> ELSE objParams[factoryId]
                cps == IF found = {} THEN <<>> ELSE objCheckpoints[factoryId]
            IN IF ~paid.ok THEN Reject("start", u, 0, "Not enough")
               ELSE /\ objects' = IF found = {}
                                  THEN With(objects, nextId,
                                            [user_id |-> u, type_code |-> <<"factory", factoryCode>>,
                                             created_at |-> now])
                                  ELSE objects
                    /\ nextId' = IF found = {} THEN nextId + 1 ELSE nextId
                    /\ stats' = ApplyWrites(stats, paid.writes, 1)
                    /\ objParams' = With(objParams, factoryId,
                                         With(With(With(params, "ready_at", String(readyAt)),
                                                   "recipe_code", recipeCode),
                                              "stage", "processing"))
                    /\ objCheckpoints' = With(objCheckpoints, factoryId,
                                              Append(cps, [time_offset |-> recipe.time,
                                                           action |-> "ready",
                                                           deadline |-> Some(readyAt + 86400),
                                                           done_at |-> None]))
                    /\ lastCall' = Recorded(Call("start", u, factoryId, TRUE, "", readyAt))
                    /\ UNCHANGED <<actionLog, friends, harvested>>
    /\ UNCHANGED <<now, watched, runVars, cropVars, hookVars>>

(* POST /api/collect_production  (handleCollect of the factories module) *)
handleCollectProduction(method, u, factoryCode) ==
    /\ IF method # "POST" THEN Reject("collect_production", u, 0, "Method Not Allowed")
       ELSE IF u = Unauthenticated THEN Reject("collect_production", u, 0, "Unauthorized")
       ELSE IF FactoriesOf(u, factoryCode) = {}
       THEN Reject("collect_production", u, 0, "Factory not found")
       ELSE LET factoryId == FirstOf(FactoriesOf(u, factoryCode))
                params == objParams[factoryId]
                readyAt == ParseDigits(ParamOr(params, "ready_at", <<0>>), 1, 0)
                recipeCode == ParamOr(params, "recipe_code", "")
                recipes == getFactoryConfig(factoryCode).recipes
            IN IF recipeCode = "" \/ readyAt = 0
               THEN Reject("collect_production", u, factoryId, "Nothing to collect")
               ELSE IF now < readyAt
               THEN Reject("collect_production", u, factoryId, "Production not finished yet")
               ELSE IF FindRecipe(recipes, recipeCode, 1) = 0
               THEN Reject("collect_production", u, factoryId, "Recipe config not found for collection")
               ELSE LET recipe == recipes[FindRecipe(recipes, recipeCode, 1)]
                        exp == IF recipe.exp = 0 THEN 10 ELSE recipe.exp
                        writes == Append(Products(u, recipe.products, 1, <<>>),
                                         [row |-> <<u, "exp", "">>,
                                          value |-> StatValue(<<u, "exp", "">>) + exp])
                        keep == DOMAIN params \ {"ready_at", "recipe_code", "stage"}
                        notReady(cp) == cp.action # "ready"
                    IN /\ stats' = ApplyWrites(stats, writes, 1)
                       /\ objParams' = [objParams EXCEPT ![factoryId] = [k \in keep |-> params[k]]]
                       /\ objCheckpoints' = [objCheckpoints EXCEPT
                                                ![factoryId] = SelectSeq(@, notReady)]
                       /\ lastCall' = Recorded(Call("collect_production", u, factoryId, TRUE, "", 0))
                       /\ UNCHANGED <<objects, actionLog, friends, nextId, harvested>>
    /\ UNCHANGED <<now, watched, runVars, cropVars, hookVars>>

(* The farmer "1" holds two tomatoes, the ingredients of two productions. *)
FactoryInit ==
    /\ CropIdle
    /\ HookIdle
    /\ now = 0
    /\ objects = <<>>
    /\ objCheckpoints = <<>>
    /\ objParams = <<>>
    /\ stats = [row \in {<<"1", "item", "tomato">>} |-> 2]
    /\ actionLog = <<>>
    /\ friends = {}
    /\ nextId = 1
    /\ harvested = {}
    /\ lastCall = NoCall
    /\ watched = {"start", "collect_production"}
    /\ RunIdle

FactoryNext ==
    \/ Tick
    \/ \E mt \in Methods, u \in {"0", "1", "2"}, fc \in {"juicer", "mill"},
          rc \in {"tomato_juice", "flour"} : handleStart(mt, u, fc, rc)
    \/ \E mt \in Methods, u \in {"0", "1", "2"}, fc \in {"juicer", "mill"} :
          handleCollectProduction(mt, u, fc)

SpecFactory == FactoryInit /\ [][FactoryNext]_vars

FactoryStage(cps, params, id) ==
    IF id \in DOMAIN cps THEN getFactoryState(cps[id], params[id]) ELSE "idle"

(* C22: start-production is accepted only when the factory is idle;         *)
(* collect-production is accepted only when now >= ready_at of the current  *)
(* production and then leaves the factory idle with no undone `ready`       *)
(* checkpoint; so each accepted start is followed by exactly one collect.   *)
C22_FactoryCycle ==
    [][/\ (lastCall'.op = "start" /\ lastCall'.ok) =>
             /\ FactoryStage(objCheckpoints, objParams, lastCall'.id) = "idle"
             /\ FactoryStage(objCheckpoints', objParams', lastCall'.id) \in {"processing", "ready"}
       /\ (lastCall'.op = "collect_production" /\ lastCall'.ok) =>
             /\ FactoryStage(objCheckpoints, objParams, lastCall'.id) = "ready"
             /\ now >= ParseDigits(objParams[lastCall'.id]["ready_at"], 1, 0)
             /\ FactoryStage(objCheckpoints', objParams', lastCall'.id) = "idle"
             /\ \A i \in 1..Len(objCheckpoints'[lastCall'.id]) :
                   objCheckpoints'[lastCall'.id][i].action # "ready"]_vars

----------------------------------------------------------------------------
(* Guard hook (animals/dog/FSM.ts guardCheck), evaluated against a storage  *)
(* that holds one crop of the farmer "1" and possibly a dog.  Chances and   *)
(* draws are in percent.                                                    *)

DefaultBlockChanceFed == 90
DefaultBlockChanceHungry == 50

GuardChances == {0, 30, 100}
GuardDraws == {0, 29, 30, 60, 95}

(* the `state` column of a game_objects row; null is the empty string *)
StateColumn(obj) == IF "state" \in DOMAIN obj THEN obj.state ELSE ""

(* db.getPlotByCrop(objectId): the crop's own row, its user_id as the owner *)
getPlotByCrop(id) == [id |-> id, user_id |-> objects[id].user_id]

(* db.query(sql, params) of the shell: game_objects(limit: 10), whatever    *)
(* the SQL text and its parameters; no order is asked for, so any stored    *)
(* row can come first.                                                      *)
QueryRows == DOMAIN objects

blockChance(dogState) ==
    LET blockChanceFed == IF modConfig.block_chance_fed = 0 THEN DefaultBlockChanceFed
                          ELSE modConfig.block_chance_fed
        blockChanceHungry == IF modConfig.block_chance_hungry = 0 THEN DefaultBlockChanceHungry
                             ELSE modConfig.block_chance_hungry
    IN IF dogState = "fed" THEN blockChanceFed ELSE blockChanceHungry

(* TRUE when the hook answers 403 dog_bite, FALSE when it returns null; row *)
(* is the first row of the query's result, draw the value of Math.random()  *)
guardCheck(u, objectId, row, draw) ==
    IF objectId = 0 THEN FALSE
    ELSE IF objectId \notin DOMAIN objects THEN FALSE
    ELSE IF getPlotByCrop(objectId).user_id = u THEN FALSE
    ELSE IF QueryRows = {} THEN FALSE
    ELSE LET dogState == IF StateColumn(objects[row]) = "" THEN "hungry"
                         ELSE StateColumn(objects[row])
         IN draw < blockChance(dogState)

GuardCrop ==
    [user_id |-> "1", type_code |-> <<"crop", "tomato">>, created_at |-> 0, state |-> ""]

GuardDog(owner, state) ==
    [user_id |-> owner, type_code |-> <<"animal", "dog">>, created_at |-> 0, state |-> state]

GuardStorages ==
    {<<GuardCrop>>}
    \cup {<<GuardCrop, GuardDog(o, st)>> : o \in {"1", "3"}, st \in {"fed", "hungry"}}
    \cup {<<GuardDog(o, st), GuardCrop>> : o \in {"1", "3"}, st \in {"fed", "hungry"}}

GuardInit ==
    /\ CropIdle
    /\ HookIdle
    /\ now = 0
    /\ objects \in GuardStorages
    /\ objCheckpoints = [id \in DOMAIN objects |-> <<>>]
    /\ objParams = [id \in DOMAIN objects |-> <<>>]
    /\ stats = <<>>
    /\ actionLog = <<>>
    /\ friends = {}
    /\ nextId = 3
    /\ harvested = {}
    /\ lastCall = NoCall
    /\ watched = {}
    /\ modConfig \in [block_chance_fed : GuardChances, block_chance_hungry : GuardChances]
    /\ procs = <<>>

(* one evaluation of the before-hook; what it was given and what it answered *)
GuardCall ==
    /\ \E u \in Users, objectId \in 0..3, row \in QueryRows, draw \in GuardDraws :
          procs' = <<[op |-> "guard", user |-> u, id |-> objectId, draw |-> draw,
                      blocked |-> guardCheck(u, objectId, row, draw)]>>
    /\ UNCHANGED <<now, storeVars, lastCall, watched, modConfig, cropVars, hookVars>>

GuardNext == GuardCall

SpecGuard == GuardInit /\ [][GuardNext]_vars

DogsOf(owner) ==
    {id \in DOMAIN objects :
        objects[id].user_id = owner /\ objects[id].type_code = <<"animal", "dog">>}

(* C23: for an object the actor does not own whose owner has a guard dog,   *)
(* the hook blocks exactly when the draw is below the configured chance for *)
(* the dog's state: block_chance_fed for a fed dog, block_chance_hungry     *)
(* otherwise, whatever the configured value in [0, 1].                      *)
C23_BlockChance ==
    \A i \in 1..Len(procs) :
        LET p == procs[i] IN
        (/\ p.op = "guard"
         /\ p.id \in DOMAIN objects
         /\ objects[p.id].user_id # p.user
         /\ DogsOf(objects[p.id].user_id) # {}) =>
            \A dog \in DogsOf(objects[p.id].user_id) :
                p.blocked <=> p.draw < (IF StateColumn(objects[dog]) = "fed"
                                        THEN modConfig.block_chance_fed
                                        ELSE modConfig.block_chance_hungry)

(* C24: the hook never blocks when the actor owns the object, nor when the  *)
(* object's owner has no guard animal, whatever the draw and whatever other *)
(* objects the storage holds.                                               *)
C24_NoBlockWithoutGuard ==
    \A i \in 1..Len(procs) :
        LET p == procs[i] IN
        (/\ p.op = "guard"
         /\ p.id \in DOMAIN objects
         /\ (objects[p.id].user_id = p.user \/ DogsOf(objects[p.id].user_id) = {})) =>
            ~p.blocked

----------------------------------------------------------------------------
(* Plots (plots/FSM.ts) and the calls that are turned away.                 *)

PLOW_COST == 5

(* getPlotState(currentState, null).canPlow *)
canPlow(currentState) ==
    CASE currentState = "empty" -> TRUE
      [] currentState = "plowed" -> FALSE
      [] currentState = "planted" -> FALSE
      [] OTHER -> TRUE

(* db.deductSilver(userId, amount) of the storage interface: false, and     *)
(* nothing deducted, when the balance is short                              *)
canDeductSilver(u, amount) == StatValue(<<u, "silver", "">>) >= amount

(* faulty variant: the silver is taken before the plot's state is looked at *)
handlePlowPaysFirst(u, plotId) ==
    /\ IF plotId \notin DOMAIN objects THEN Reject("plow", u, plotId, "Not found")
       ELSE IF objects[plotId].user_id # u THEN Reject("plow", u, plotId, "Not found")
       ELSE IF ~canDeductSilver(u, PLOW_COST) THEN Reject("plow", u, plotId, "Not enough silver")
       ELSE IF ~canPlow(IF StateColumn(objects[plotId]) = "" THEN "empty"
                        ELSE StateColumn(objects[plotId]))
       THEN /\ stats' = With(stats, <<u, "silver", "">>, StatValue(<<u, "silver", "">>) - PLOW_COST)
            /\ lastCall' = Recorded(Call("plow", u, plotId, FALSE, "Cannot plow", 0))
            /\ UNCHANGED <<objects, objParams, objCheckpoints, actionLog, friends, nextId, harvested>>
       ELSE /\ stats' = With(stats, <<u, "silver", "">>, StatValue(<<u, "silver", "">>) - PLOW_COST)
            /\ objects' = [objects EXCEPT ![plotId] = With(@, "state", "plowed")]
            /\ lastCall' = Recorded(Call("plow", u, plotId, TRUE, "", 0))
            /\ UNCHANGED <<objParams, objCheckpoints, actionLog, friends, nextId, harvested>>
    /\ UNCHANGED <<now, watched, runVars, cropVars, hookVars>>

(* handlePlow of the plots module *)
handlePlow(u, plotId) ==
    /\ IF plotId \notin DOMAIN objects THEN Reject("plow", u, plotId, "Not found")
       ELSE IF objects[plotId].user_id # u THEN Reject("plow", u, plotId, "Not found")
       ELSE IF ~canPlow(IF StateColumn(objects[plotId]) = "" THEN "empty"
                        ELSE StateColumn(objects[plotId]))
       THEN Reject("plow", u, plotId, "Cannot plow")
       ELSE IF ~canDeductSilver(u, PLOW_COST) THEN Reject("plow", u, plotId, "Not enough silver")
       ELSE /\ stats' = With(stats, <<u, "silver", "">>, StatValue(<<u, "silver", "">>) - PLOW_COST)
            /\ objects' = [objects EXCEPT ![plotId] = With(@, "state", "plowed")]
            /\ lastCall' = Recorded(Call("plow", u, plotId, TRUE, "", 0))
            /\ UNCHANGED <<objParams, objCheckpoints, actionLog, friends, nextId, harvested>>
    /\ UNCHANGED <<now, watched, runVars, cropVars, hookVars>>

FrameVerbs == {"steal", "steal_social", "throw_pest", "throw_pest_social", "water",
               "remove_pest", "plow", "harvest"}

(* The farmer "1" owns plot 1, one tomato seed and the price of two         *)
(* ploughings or nothing; "2" is a friend.                                  *)
FrameInit ==
    /\ CropIdle
    /\ HookIdle
    /\ now = 0
    /\ objects = <<[user_id |-> "1", type_code |-> <<"plot", "">>, created_at |-> 0, state |-> ""]>>
    /\ objCheckpoints = <<<<>>>>
    /\ objParams = <<<<>>>>
    /\ \E silver \in {0, 2 * PLOW_COST} :
          stats = [row \in {<<"1", "seed", "tomato">>, <<"1", "silver", "">>} |->
                      IF row[2] = "seed" THEN 1 ELSE silver]
    /\ actionLog = <<>>
    /\ friends = {<<"2", "1">>}
    /\ nextId = 2
    /\ harvested = {}
    /\ lastCall = NoCall
    /\ watched = FrameVerbs
    /\ RunIdle

Actors == {"1", "2"}

(* the clock stays within the day of planting *)
FrameTick == Tick /\ now' <= 200

FrameNext ==
    \/ FrameTick
    \/ handlePlant("1", "tomato", [i \in 1..4 |-> 5], 10)
    \/ \E u \in Actors, id \in {1, 3} : handlePlow(u, id)
    \/ handleWater("1", 2)
    \/ handleRemovePest("1", 2)
    \/ \E u \in Actors : handleSteal(u, 2)
    \/ \E u \in Actors : handleStealSocial(u, 2)
    \/ \E u \in Actors : handleThrowPest(u, 2)
    \/ \E u \in Actors : handleThrowPestSocial(u, 2)
    \/ \E id \in {2, 3} : handleHarvest("1", id)

SpecFrame == FrameInit /\ [][FrameNext]_vars

(* C25: a steal, throw-pest, water, remove-pest, plow or harvest call that  *)
(* is rejected for a precondition other than withered leaves the stored     *)
(* state as it was: objects, params, checkpoints, inventories, experience   *)
(* and the daily-action log.                                                *)
C25_RejectedCallsChangeNothing ==
    [][(lastCall'.op \in FrameVerbs /\ ~lastCall'.ok /\ lastCall'.error # "Withered") =>
          UNCHANGED <<objects, objParams, objCheckpoints, stats, actionLog, friends>>]_vars

C25_Witness ==
    /\ lastCall.op = "plow"
    /\ ~lastCall.ok
    /\ lastCall.error = "Cannot plow"
    /\ StateColumn(objects[1]) = "plowed"
    /\ StatValue(<<"1", "silver", "">>) = PLOW_COST
    /\ Len(actionLog) >= 2

----------------------------------------------------------------------------
(* Invocations taken one storage operation at a time: executeWithHooks      *)
(* (index.ts) running the guard hook and then handleHarvestEndpoint (crops  *)
(* module; handleHarvestCrop of the shell has the same steps).  procs holds *)
(* one record per invocation: where it stands, what it has read, the        *)
(* storage operations it has issued and how it ended.                       *)

MaxRuns == 2

Proc(op, u, id) ==
    [op |-> op, user |-> u, id |-> id, pc |-> "before", events |-> <<>>, result |-> "",
     items |-> 0, exp |-> 0, yield |-> 0, code |-> "", gain |-> 0]

Finish(p, result) == [p EXCEPT !.pc = "done", !.result = result]
Issue(p, operation) == [p EXCEPT !.events = Append(@, operation)]

(* a request arrives: getHasuraClaims gives the user id, "0" without a token *)
RequestHarvest ==
    /\ Len(procs) < MaxRuns
    /\ \E u \in {Unauthenticated, "1", "3"}, id \in 0..2 :
          procs' = Append(procs, Proc("harvest", u, id))
    /\ UNCHANGED <<now, storeVars, lastCall, watched, modConfig, cropVars, hookVars>>

(* guardCheck up to its query: object id, getObject, getPlotByCrop, owner *)
guardGetObject(i) ==
    LET p == procs[i] IN
    /\ p.pc = "before"
    /\ procs' = [procs EXCEPT ![i] =
          IF p.id = 0 THEN [p EXCEPT !.pc = "handler"]
          ELSE IF p.id \notin DOMAIN objects THEN [Issue(p, "getObject") EXCEPT !.pc = "handler"]
          ELSE IF getPlotByCrop(p.id).user_id = p.user
               THEN [Issue(Issue(p, "getObject"), "getPlotByCrop") EXCEPT !.pc = "handler"]
          ELSE [Issue(Issue(p, "getObject"), "getPlotByCrop") EXCEPT !.pc = "before_query"]]
    /\ UNCHANGED <<now, storeVars, lastCall, watched, modConfig, cropVars, hookVars>>

(* guardCheck from its query on: rows, block chance, Math.random() *)
guardQuery(i) ==
    LET p == procs[i] IN
    /\ p.pc = "before_query"
    /\ IF QueryRows = {}
       THEN procs' = [procs EXCEPT ![i] = [Issue(p, "query") EXCEPT !.pc = "handler"]]
       ELSE \E row \in QueryRows, draw \in {0, 95} :
              LET dogState == IF StateColumn(objects[row]) = "" THEN "hungry"
                              ELSE StateColumn(objects[row])
              IN procs' = [procs EXCEPT ![i] =
                    IF draw < blockChance(dogState) THEN Finish(Issue(p, "query"), "dog_bite")
                    ELSE [Issue(p, "query") EXCEPT !.pc = "handler"]]
    /\ UNCHANGED <<now, storeVars, lastCall, watched, modConfig, cropVars, hookVars>>

(* handleHarvestEndpoint up to its first write: auth, id, the object query  *)
(* and the checks made on its answer                                        *)
harvestGetObject(i) ==
    LET p == procs[i]
        q == Issue(p, "game_objects_by_pk")
    IN
    /\ p.pc = "handler"
    /\ procs' = [procs EXCEPT ![i] =
          IF p.user = Unauthenticated THEN Finish(p, "Unauthorized")
          ELSE IF p.id = 0 THEN Finish(p, "Missing object id")
          ELSE IF p.id \notin DOMAIN objects THEN Finish(q, "Object not found")
          ELSE IF objects[p.id].user_id # p.user THEN Finish(q, "Not your crop")
          ELSE IF IsNone(HarvestCheckpoint(p.id)) THEN Finish(q, "No harvest checkpoint")
          ELSE LET cp == HarvestCheckpoint(p.id)[1]
                   created == objects[p.id].created_at
                   code == objects[p.id].type_code[2]
               IN IF now < created + cp.time_offset THEN Finish(q, "Not ready yet")
                  ELSE IF now > created + cp.deadline[1] THEN [q EXCEPT !.pc = "delete_withered"]
                  ELSE [q EXCEPT !.pc = "read_items",
                                 !.yield = parseInt(getParam(p.id, "yield"), <<2>>),
                                 !.code = code,
                                 !.gain = IF KnownCrop(code) /\ getConfig(code).exp # 0
                                          THEN getConfig(code).exp ELSE 5]]
    /\ UNCHANGED <<now, storeVars, lastCall, watched, modConfig, cropVars, hookVars>>

(* delete_game_objects_by_pk: rows of an object that is gone are left alone *)
DeleteIfPresent(id) ==
    IF id \in DOMAIN objects THEN DeleteObject(id)
    ELSE UNCHANGED <<objects, objCheckpoints, objParams>>

harvestDeleteWithered(i) ==
    LET p == procs[i] IN
    /\ p.pc = "delete_withered"
    /\ DeleteIfPresent(p.id)
    /\ procs' = [procs EXCEPT ![i] = Finish(Issue(p, "delete_game_objects_by_pk"), "Withered")]
    /\ UNCHANGED <<now, stats, actionLog, friends, nextId, harvested, lastCall, watched,
                   modConfig, cropVars, hookVars>>

harvestReadItems(i) ==
    LET p == procs[i] IN
    /\ p.pc = "read_items"
    /\ procs' = [procs EXCEPT ![i] =
          [Issue(p, "user_stats") EXCEPT !.pc = "write_items",
                                         !.items = StatValue(<<p.user, "item", p.code>>)]]
    /\ UNCHANGED <<now, storeVars, lastCall, watched, modConfig, cropVars, hookVars>>

harvestWriteItems(i) ==
    LET p == procs[i] IN
    /\ p.pc = "write_items"
    /\ stats' = With(stats, <<p.user, "item", p.code>>, p.items + p.yield)
    /\ procs' = [procs EXCEPT ![i] = [Issue(p, "insert_user_stats_one") EXCEPT !.pc = "read_exp"]]
    /\ UNCHANGED <<now, objects, objCheckpoints, objParams, actionLog, friends, nextId, harvested,
                   lastCall, watched, modConfig, cropVars, hookVars>>

harvestReadExp(i) ==
    LET p == procs[i] IN
    /\ p.pc = "read_exp"
    /\ procs' = [procs EXCEPT ![i] =
          [Issue(p, "user_stats") EXCEPT !.pc = "write_exp",
                                         !.exp = StatValue(<<p.user, "exp", "">>)]]
    /\ UNCHANGED <<now, storeVars, lastCall, watched, modConfig, cropVars, hookVars>>

harvestWriteExp(i) ==
    LET p == procs[i] IN
    /\ p.pc = "write_exp"
    /\ stats' = With(stats, <<p.user, "exp", "">>, p.exp + p.gain)
    /\ procs' = [procs EXCEPT ![i] = [Issue(p, "insert_user_stats_one") EXCEPT !.pc = "delete"]]
    /\ UNCHANGED <<now, objects, objCheckpoints, objParams, actionLog, friends, nextId, harvested,
                   lastCall, watched, modConfig, cropVars, hookVars>>

harvestDelete(i) ==
    LET p == procs[i] IN
    /\ p.pc = "delete"
    /\ DeleteIfPresent(p.id)
    /\ harvested' = harvested \cup {p.id}
    /\ procs' = [procs EXCEPT ![i] = Finish(Issue(p, "delete_game_objects_by_pk"), "success")]
    /\ UNCHANGED <<now, stats, actionLog, friends, nextId, lastCall, watched,
                   modConfig, cropVars, hookVars>>

StoragePcs == {"delete_withered", "read_items", "write_items", "read_exp", "write_exp", "delete"}

(* hasuraQuery throws (network error, non-JSON answer, GraphQL errors): the *)
(* handler's catch answers 500 and nothing of the failed operation is       *)
(* stored                                                                   *)
harvestStorageFails(i) ==
    LET p == procs[i] IN
    /\ \/ p.pc \in StoragePcs
       \/ p.pc = "handler" /\ p.user # Unauthenticated /\ p.id # 0
    /\ procs' = [procs EXCEPT ![i] = Finish(p, "error 500")]
    /\ UNCHANGED <<now, storeVars, lastCall, watched, modConfig, cropVars, hookVars>>

RunCrop(u) ==
    [user_id |-> u, type_code |-> <<"crop", "tomato">>, created_at |-> 0]

(* Two tomatoes of farmer "1", planted at 0 with no care checkpoints and    *)
(* yield 10 each; nobody owns a dog.                                        *)
RunInit ==
    /\ CropIdle
    /\ HookIdle
    /\ now = 0
    /\ objects = <<RunCrop("1"), RunCrop("1")>>
    /\ objCheckpoints = [id \in 1..2 |->
          PersistCheckpoints(generateCropCheckpoints(ScenarioConfig, [i \in 1..4 |-> 99]))]
    /\ objParams = [id \in 1..2 |-> [k \in {"yield"} |-> String(10)]]
    /\ stats = <<>>
    /\ actionLog = <<>>
    /\ friends = {}
    /\ nextId = 3
    /\ harvested = {}
    /\ lastCall = NoCall
    /\ watched = {}
    /\ modConfig = NoModConfig
    /\ procs = <<>>

RunNext ==
    \/ Tick
    \/ RequestHarvest
    \/ \E i \in DOMAIN procs : guardGetObject(i)
    \/ \E i \in DOMAIN procs : guardQuery(i)
    \/ \E i \in DOMAIN procs : harvestGetObject(i)
    \/ \E i \in DOMAIN procs : harvestDeleteWithered(i)
    \/ \E i \in DOMAIN procs : harvestReadItems(i)
    \/ \E i \in DOMAIN procs : harvestWriteItems(i)
    \/ \E i \in DOMAIN procs : harvestReadExp(i)
    \/ \E i \in DOMAIN procs : harvestWriteExp(i)
    \/ \E i \in DOMAIN procs : harvestDelete(i)
    \/ \E i \in DOMAIN procs : harvestStorageFails(i)

SpecRun == RunInit /\ [][RunNext]_vars

(* C26: an invocation by the unauthenticated actor "0" ends in the          *)
(* unauthorized rejection with no storage operation issued and no other     *)
(* rejection or block before it, and an invocation without an object id is  *)
(* rejected before any storage operation.                                   *)
C26_UnauthorizedFirst ==
    \A i \in 1..Len(procs) :
        LET p == procs[i] IN
        /\ (p.user = Unauthenticated => p.events = <<>>)
        /\ (p.user = Unauthenticated /\ p.pc = "done" => p.result = "Unauthorized")
        /\ (p.id = 0 => p.events = <<>>)
        /\ (p.id = 0 /\ p.pc = "done" => p.result \in {"Unauthorized", "Missing object id"})

(* C29: two harvest invocations by the same owner on two different ready    *)
(* objects, interleaved at the granularity of storage operations, both take *)
(* full effect: both objects are gone and the owner's items and experience  *)
(* hold both credits.                                                       *)
C29_BothHarvestsCount ==
    (/\ Len(procs) = 2
     /\ procs[1].user = procs[2].user
     /\ procs[1].id # procs[2].id
     /\ procs[1].result = "success"
     /\ procs[2].result = "success")
    => /\ procs[1].id \notin DOMAIN objects
       /\ procs[2].id \notin DOMAIN objects
       /\ StatValue(<<procs[1].user, "item", procs[1].code>>) = procs[1].yield + procs[2].yield
       /\ StatValue(<<procs[1].user, "exp", "">>) = procs[1].gain + procs[2].gain

(* C30: when a storage operation of a harvest fails the invocation stops    *)
(* with a failure result and its writes are all-or-nothing: no state has    *)
(* items or experience credited by an invocation whose object still exists  *)
(* and can be harvested again.                                              *)
C30_HarvestAllOrNothing ==
    \A i \in 1..Len(procs) :
        LET p == procs[i] IN
        (p.result = "error 500" /\ p.id \in DOMAIN objects)
        => "insert_user_stats_one" \notin Range(p.events)

----------------------------------------------------------------------------
(* handlePlantEndpoint (crops module; handlePlantCrop of the shell has the  *)
(* same steps), one storage operation at a time.                            *)

PlantProc(u, cropCode) ==
    [op |-> "plant", user |-> u, crop |-> cropCode, pc |-> "handler", events |-> <<>>,
     result |-> "", seeds |-> 0, objectId |-> 0, cps |-> <<>>, k |-> 1]

RequestPlant ==
    /\ Len(procs) < MaxRuns
    /\ \E u \in {Unauthenticated, "1"}, cropCode \in {"", "tomato", "kiwi"} :
          procs' = Append(procs, PlantProc(u, cropCode))
    /\ UNCHANGED <<now, storeVars, lastCall, watched, modConfig, cropVars, hookVars>>

(* auth, parameters, crop config, the seed query and the check on its answer *)
plantReadSeeds(i) ==
    LET p == procs[i]
        q == Issue(p, "user_stats")
        currentSeeds == StatValue(<<p.user, "seed", p.crop>>)
    IN
    /\ p.op = "plant" /\ p.pc = "handler"
    /\ procs' = [procs EXCEPT ![i] =
          IF p.user = Unauthenticated THEN Finish(p, "Unauthorized")
          ELSE IF p.crop = "" THEN Finish(p, "Missing crop or plot_id")
          ELSE IF ~KnownCrop(p.crop) THEN Finish(p, "Unknown crop")
          ELSE IF currentSeeds < 1 THEN Finish(q, "No seeds")
          ELSE [q EXCEPT !.pc = "write_seeds", !.seeds = currentSeeds]]
    /\ UNCHANGED <<now, storeVars, lastCall, watched, modConfig, cropVars, hookVars>>

plantWriteSeeds(i) ==
    LET p == procs[i] IN
    /\ p.op = "plant" /\ p.pc = "write_seeds"
    /\ stats' = With(stats, <<p.user, "seed", p.crop>>, p.seeds - 1)
    /\ procs' = [procs EXCEPT ![i] = [Issue(p, "insert_user_stats_one") EXCEPT !.pc = "insert_object"]]
    /\ UNCHANGED <<now, objects, objCheckpoints, objParams, actionLog, friends, nextId, harvested,
                   lastCall, watched, modConfig, cropVars, hookVars>>

(* insert_game_objects_one, then generateCropCheckpoints(cropConfig) *)
plantInsertObject(i) ==
    LET p == procs[i] IN
    /\ p.op = "plant" /\ p.pc = "insert_object"
    /\ objects' = With(objects, nextId,
                       [user_id |-> p.user, type_code |-> <<"crop", p.crop>>, created_at |-> now])
    /\ objCheckpoints' = With(objCheckpoints, nextId, <<>>)
    /\ objParams' = With(objParams, nextId, <<>>)
    /\ nextId' = nextId + 1
    /\ \E draw \in Draws :
          procs' = [procs EXCEPT ![i] =
              [Issue(p, "insert_game_objects_one") EXCEPT
                  !.pc = "insert_checkpoint", !.objectId = nextId,
                  !.cps = generateCropCheckpoints(getConfig(p.crop), [j \in 1..4 |-> draw])]]
    /\ UNCHANGED <<now, stats, actionLog, friends, harvested, lastCall, watched, modConfig,
                   cropVars, hookVars>>

(* one turn of the loop over the generated checkpoints *)
plantInsertCheckpoint(i) ==
    LET p == procs[i] IN
    /\ p.op = "plant" /\ p.pc = "insert_checkpoint"
    /\ p.k <= Len(p.cps)
    /\ objCheckpoints' = [objCheckpoints EXCEPT
                             ![p.objectId] = Append(@, PersistCheckpoint(p.cps[p.k]))]
    /\ procs' = [procs EXCEPT ![i] =
          [Issue(p, "insert_game_checkpoints_one") EXCEPT
              !.k = p.k + 1,
              !.pc = IF p.k = Len(p.cps) THEN "insert_yield" ELSE "insert_checkpoint"]]
    /\ UNCHANGED <<now, objects, objParams, stats, actionLog, friends, nextId, harvested,
                   lastCall, watched, modConfig, cropVars, hookVars>>

(* generateYield(cropConfig) and the yield param *)
plantInsertYield(i) ==
    LET p == procs[i] IN
    /\ p.op = "plant" /\ p.pc = "insert_yield"
    /\ \E yieldAmount \in getConfig(p.crop).yield[1]..getConfig(p.crop).yield[2] :
          objParams' = [objParams EXCEPT ![p.objectId] = With(@, "yield", String(yieldAmount))]
    /\ procs' = [procs EXCEPT ![i] = Finish(Issue(p, "insert_game_object_params_one"), "success")]
    /\ UNCHANGED <<now, objects, objCheckpoints, stats, actionLog, friends, nextId, harvested,
                   lastCall, watched, modConfig, cropVars, hookVars>>

(* hasuraQuery throws: the catch answers 500 *)
plantStorageFails(i) ==
    LET p == procs[i] IN
    /\ p.op = "plant"
    /\ \/ p.pc \in {"write_seeds", "insert_object", "insert_checkpoint", "insert_yield"}
       \/ p.pc = "handler" /\ p.user # Unauthenticated /\ KnownCrop(p.crop)
    /\ procs' = [procs EXCEPT ![i] = Finish(p, "error 500")]
    /\ UNCHANGED <<now, storeVars, lastCall, watched, modConfig, cropVars, hookVars>>

InitialSeeds == 2

PlantRunInit ==
    /\ CropIdle
    /\ HookIdle
    /\ now = 0
    /\ objects = <<>>
    /\ objCheckpoints = <<>>
    /\ objParams = <<>>
    /\ stats = [row \in {<<"1", "seed", "tomato">>} |-> InitialSeeds]
    /\ actionLog = <<>>
    /\ friends = {}
    /\ nextId = 1
    /\ harvested = {}
    /\ lastCall = NoCall
    /\ watched = {}
    /\ modConfig = NoModConfig
    /\ procs = <<>>

PlantRunNext ==
    \/ Tick
    \/ RequestPlant
    \/ \E i \in DOMAIN procs : plantReadSeeds(i)
    \/ \E i \in DOMAIN procs : plantWriteSeeds(i)
    \/ \E i \in DOMAIN procs : plantInsertObject(i)
    \/ \E i \in DOMAIN procs : plantInsertCheckpoint(i)
    \/ \E i \in DOMAIN procs : plantInsertYield(i)
    \/ \E i \in DOMAIN procs : plantStorageFails(i)

SpecPlantRun == PlantRunInit /\ [][PlantRunNext]_vars

Quiescent == \A i \in 1..Len(procs) : procs[i].pc = "done"

(* C27: once no plant invocation is in progress, also after a storage       *)
(* operation has failed part-way through one, every stored crop has its     *)
(* whole generated checkpoint set (ending in the harvest checkpoint) and a   *)
(* yield param, and no seed is gone without a crop made for it.             *)
C27_PlantAllOrNothing ==
    Quiescent =>
        /\ \A id \in DOMAIN objects :
              /\ ~IsNone(HarvestCheckpoint(id))
              /\ ~IsNone(getParam(id, "yield"))
        /\ StatValue(<<"1", "seed", "tomato">>) + Cardinality(DOMAIN objects) >= InitialSeeds

----------------------------------------------------------------------------
(* The deriver over stored checkpoint rows in whatever order the storage    *)
(* returns them (getCheckpoints asks for no order), with rows completed and *)
(* a pest thrown in between.                                                *)

MaxPairs == 2

OrderGrid == {179999, 190000, 661000, 781000, 2000000}

(* plant: generate and persist, every trial of the crop firing or none *)
OrderGenerate ==
    /\ generator = "none"
    /\ \E draw \in Draws :
          LET cps == generateCropCheckpoints(cropConfig,
                         [i \in 1..(2 * Len(cropConfig.stage_times)) |-> draw])
          IN /\ checkpoints' = cps
             /\ checkpointsData' = PersistCheckpoints(cps)
    /\ generator' = "crops"
    /\ UNCHANGED <<cropConfig, observed, hookVars, gameVars>>

(* the rows come back in another order: two of them change places *)
OrderSwap ==
    /\ generator = "crops"
    /\ observed = <<>>
    /\ \E i, j \in 1..Len(checkpointsData) :
          /\ i < j
          /\ checkpointsData' = [checkpointsData EXCEPT ![i] = checkpointsData[j],
                                                        ![j] = checkpointsData[i]]
    /\ UNCHANGED <<cropConfig, generator, checkpoints, observed, hookVars, gameVars>>

(* db.completeCheckpoint on a water or remove_pest row *)
OrderComplete ==
    /\ generator = "crops"
    /\ observed = <<>>
    /\ \E i \in 1..Len(checkpointsData) :
          /\ checkpointsData[i].action \in {"water", "remove_pest"}
          /\ IsNone(checkpointsData[i].done_at)
          /\ checkpointsData' = [checkpointsData EXCEPT ![i].done_at = Some(1)]
    /\ UNCHANGED <<cropConfig, generator, checkpoints, observed, hookVars, gameVars>>

Observation(e) ==
    [elapsed |-> e, state |-> getCropState(cropConfig, checkpointsData, e),
     cps |-> checkpointsData]

(* at most MaxPairs evaluations over the rows as they are stored now *)
OrderObserve ==
    /\ generator = "crops"
    /\ Cardinality({i \in 1..Len(observed) : observed[i].cps = checkpointsData}) < MaxPairs
    /\ \E e \in OrderGrid :
          /\ e >= LastElapsed
          /\ observed' = Append(observed, Observation(e))
    /\ UNCHANGED <<cropConfig, generator, checkpoints, checkpointsData, hookVars, gameVars>>

InsertAt(s, k, x) == SubSeq(s, 1, k - 1) \o <<x>> \o SubSeq(s, k, Len(s))

(* handleThrowPest of the crops module: the state is derived, and when the  *)
(* throw is accepted a remove_pest row with time_offset = elapsed is stored, *)
(* coming back ahead of the other rows or after them                        *)
OrderThrow ==
    /\ generator = "crops"
    /\ observed = <<>>
    /\ \E e \in OrderGrid, k \in {1, Len(checkpointsData) + 1} :
          LET state == getCropState(cropConfig, checkpointsData, e) IN
          /\ ~(state.isReady \/ state.isWithered)
          /\ state.needsAction # Some("remove_pest")
          /\ observed' = <<Observation(e)>>
          /\ checkpointsData' = InsertAt(checkpointsData, k, ThrownPest(e \div 1000))
    /\ UNCHANGED <<cropConfig, generator, checkpoints, hookVars, gameVars>>

OrderNext == OrderGenerate \/ OrderSwap \/ OrderComplete \/ OrderObserve \/ OrderThrow

SpecOrder == CropInit /\ [][OrderNext]_vars

(* C28: withered is terminal.  For one config and one stored checkpoint set *)
(* in one storage order, whatever that order is, when the deriver reports   *)
(* withered at an elapsed time it reports withered at every later one.      *)
C28_WitheredIsTerminal ==
    \A i, j \in 1..Len(observed) :
        (/\ observed[i].cps = observed[j].cps
         /\ observed[i].elapsed <= observed[j].elapsed
         /\ observed[i].state.isWithered)
        => observed[j].state.isWithered

C28_Witness ==
    /\ cropConfig.wither_time = 0
    /\ Len(observed) = 3
    /\ observed[2].cps = checkpointsData
    /\ observed[3].cps = checkpointsData
    /\ checkpointsData[1] = ThrownPest(179)
    /\ checkpointsData[2].action = "harvest"
    /\ observed[2].elapsed < observed[3].elapsed
    /\ observed[2].state.isWithered
    /\ observed[3].state.isWithered

----------------------------------------------------------------------------
(* C31: whatever the config, the stored checkpoints and the elapsed time,   *)
(* the deriver never reports ready and withered together, names a needed    *)
(* action only when it reports neither, and reports a stage index between 1 *)
(* and the number of stages.                                                *)
C31_DeriverOutputShape ==
    \A k \in 1..Len(observed) :
        LET st == observed[k].state IN
        /\ ~(st.isReady /\ st.isWithered)
        /\ (~IsNone(st.needsAction) => ~st.isReady /\ ~st.isWithered)
        /\ st.stage >= 1
        /\ st.stage <= Len(cropConfig.stage_times)

(* a crop type whose stage list is empty: CropConfig.stage_times is any number[] *)
NoStageConfig ==
    [code |-> "moss", stage_times |-> <<>>, wither_time |-> 600,
     pest_chance |-> 0, water_chance |-> 0, exp |-> 1, sell_silver |-> 1,
     buy_silver |-> 1, yield |-> <<1, 1>>, steal_percent |-> 0,
     stages |-> <<>>]

ShapeInit ==
    /\ cropConfig \in CONFIGS \cup {NoStageConfig}
    /\ generator = "none"
    /\ checkpoints = <<>>
    /\ checkpointsData = <<>>
    /\ observed = <<>>
    /\ HookIdle
    /\ GameIdle

SpecShape == ShapeInit /\ [][CropNext]_vars

(* C31 (amended): for every config with at least one stage, the three       *)
(* properties hold; for a config with no stage the first two hold and the   *)
(* reported stage index is 0.                                               *)
C31_ShapeWithStages ==
    \A k \in 1..Len(observed) :
        LET st == observed[k].state IN
        /\ ~(st.isReady /\ st.isWithered)
        /\ (~IsNone(st.needsAction) => ~st.isReady /\ ~st.isWithered)
        /\ (Len(cropConfig.stage_times) >= 1 =>
               st.stage >= 1 /\ st.stage <= Len(cropConfig.stage_times))
        /\ (Len(cropConfig.stage_times) = 0 => st.stage = 0)

C31_Witness ==
    /\ Len(observed) = 3
    /\ observed[1].state.stage = 1
    /\ observed[2].state.needsAction = Some("water")
    /\ observed[3].state.isWithered
    /\ observed[3].state.stage = Len(cropConfig.stage_times)

----------------------------------------------------------------------------
(* A crop type with a growth stage longer than the care deadlines. *)
LongStageConfig ==
    [code |-> "pumpkin", stage_times |-> <<60, 700>>, wither_time |-> 600,
     pest_chance |-> 0, water_chance |-> 0, exp |-> 1, sell_silver |-> 1,
     buy_silver |-> 1, yield |-> <<1, 1>>, steal_percent |-> 0,
     stages |-> <<"seed", "ripe">>]

GrowInit ==
    /\ cropConfig \in CONFIGS \cup {LongStageConfig}
    /\ generator = "none"
    /\ checkpoints = <<>>
    /\ checkpointsData = <<>>
    /\ observed = <<>>
    /\ HookIdle
    /\ GameIdle

SpecGrow == GrowInit /\ [][CropNext]_vars

(* elapsed times (ms) at which the deriver is asked about a care checkpoint *)
GrowGrid == ElapsedGrid \cup {120000, 400000, 660000, 760000, 1860000}

(* the care row that is next to be served: undone, every row before it done *)
NextCare(i) ==
    /\ checkpointsData[i].action \in {"water", "remove_pest"}
    /\ IsNone(checkpointsData[i].done_at)
    /\ \A j \in 1..(i - 1) : ~IsNone(checkpointsData[j].done_at)

(* C32: for every generated checkpoint set, a water or remove_pest          *)
(* checkpoint whose predecessors are completed is reported by the deriver   *)
(* as the needed action at some elapsed time between its time_offset and    *)
(* its deadline, so that no crop is reported growing up to the moment it is *)
(* reported withered for that checkpoint.                                   *)
C32_CareReported ==
    generator = "crops" =>
        \A i \in 1..Len(checkpointsData) :
            NextCare(i) =>
                \E e \in GrowGrid :
                    /\ e >= checkpointsData[i].time_offset * 1000
                    /\ e <= checkpointsData[i].deadline[1] * 1000
                    /\ getCropState(cropConfig, checkpointsData, e).needsAction
                           = Some(checkpointsData[i].action)

----------------------------------------------------------------------------
(* Registration order (moduleAPI.registerEndpoint / registerHook,          *)
(* tryLoadModule): a module's init may register an endpoint name that the  *)
(* ENDPOINTS loop of tryLoadModule registers again.                        *)

Occurrences(hooks, h) == Cardinality({j \in 1..Len(hooks) : hooks[j] = h})

(* C33: whatever the order of registerHook and registerEndpoint calls at   *)
(* startup, while an invocation executes every hook registered for the     *)
(* endpoint name is in the endpoint's hook list exactly once.              *)
C33_HooksPresentOnce ==
    pc \in {"before", "after"} =>
        \A k \in 1..Len(registered) : Occurrences(endpointHooks, registered[k]) = 1

----------------------------------------------------------------------------
(* Constraints on owners that have no hook on the action.                  *)

(* some runBefore / runAfter of the list names a module with no hook in it *)
NamesUnattachedOwner(hooks) ==
    \E i \in 1..Len(hooks) : (hooks[i].runBefore \cup hooks[i].runAfter) \ Names(hooks) # {}

(* result.length !== hooks.length: sortHooks took the "cycle detected" return *)
TookCycleFallback(hooks) ==
    /\ Len(hooks) > 1
    /\ LET keys == GraphKeys(hooks, 1, <<>>)
           graph == BuildGraph(hooks)
           inDegree == [k \in DOMAIN graph |-> Cardinality(graph[k])]
           zero(k) == inDegree[k] = 0
       IN Len(Kahn(hooks, keys, SelectSeq(keys, zero), graph, inDegree, <<>>)) # Len(hooks)

(* C34: a runBefore or runAfter naming an owner with no hook on the action *)
(* is ignored: the sorted list still honours every constraint between      *)
(* attached hooks, and the cycle fallback is taken only when the attached  *)
(* hooks' constraints contain a cycle.                                     *)
C34_UnattachedIgnored ==
    (sortedOnce /\ DistinctOwners(sortInput) /\ NamesUnattachedOwner(sortInput)) =>
        /\ ~HasCycle(sortInput) => HonoursConstraints(endpointHooks)
        /\ TookCycleFallback(sortInput) => HasCycle(sortInput)

(* C35: sortHooks returns a permutation of its input: the same hooks, each *)
(* exactly once, none added or dropped, with or without a cycle and with   *)
(* or without two hooks sharing a module name.                             *)
C35_SortIsPermutation ==
    sortedOnce =>
        /\ Len(endpointHooks) = Len(sortInput)
        /\ \A h \in Range(sortInput) \cup Range(endpointHooks) :
              Occurrences(endpointHooks, h) = Occurrences(sortInput, h)

(* two hooks of one module, one of them constrained, sorted with a third *)
C35_Witness ==
    /\ sortedOnce
    /\ Len(sortInput) = 3
    /\ sortInput[1].moduleName = sortInput[3].moduleName
    /\ sortInput[1] # sortInput[3]
    /\ sortInput[2].runBefore = {sortInput[1].moduleName}
    /\ Len(endpointHooks) = 3

----------------------------------------------------------------------------
(* handleSteal of the social handlers (animals/dog/FSM.ts) taken one        *)
(* storage operation at a time; handleSteal of the crops module reads,      *)
(* computes and writes the `stolen` Param with the same operations.         *)

RequestSteal ==
    /\ Len(procs) < MaxRuns
    /\ \E u \in Thieves \cup {"1"} : procs' = Append(procs, Proc("steal_social", u, 1))
    /\ UNCHANGED <<now, storeVars, lastCall, watched, modConfig, cropVars, hookVars>>

(* db.getObject and the owner check *)
stealGetObject(i) ==
    LET p == procs[i]
        q == Issue(p, "getObject")
    IN
    /\ p.op = "steal_social" /\ p.pc = "before"
    /\ procs' = [procs EXCEPT ![i] =
          IF p.id \notin DOMAIN objects THEN Finish(q, "Not found")
          ELSE IF objects[p.id].user_id = p.user THEN Finish(q, "Cannot steal own crop")
          ELSE [q EXCEPT !.pc = "is_friend", !.code = objects[p.id].type_code[2]]]
    /\ UNCHANGED <<now, storeVars, lastCall, watched, modConfig, cropVars, hookVars>>

stealIsFriend(i) ==
    LET p == procs[i]
        q == Issue(p, "isFriend")
    IN
    /\ p.pc = "is_friend"
    /\ procs' = [procs EXCEPT ![i] =
          IF ~isFriend(p.user, "1") THEN Finish(q, "Not a friend")
          ELSE [q EXCEPT !.pc = "count_today"]]
    /\ UNCHANGED <<now, storeVars, lastCall, watched, modConfig, cropVars, hookVars>>

stealCountToday(i) ==
    LET p == procs[i]
        q == Issue(p, "countTodayActions")
    IN
    /\ p.pc = "count_today"
    /\ procs' = [procs EXCEPT ![i] =
          IF countTodayActions(p.user, "steal", "1") >= MAX_STEALS_PER_NEIGHBOR
          THEN Finish(q, "Daily limit reached")
          ELSE [q EXCEPT !.pc = "read_yield"]]
    /\ UNCHANGED <<now, storeVars, lastCall, watched, modConfig, cropVars, hookVars>>

(* const yieldStr = await db.getParam(cropId, 'yield') *)
stealReadYield(i) ==
    LET p == procs[i] IN
    /\ p.pc = "read_yield"
    /\ procs' = [procs EXCEPT ![i] =
          [Issue(p, "getParam") EXCEPT !.pc = "read_stolen",
                                       !.yield = parseInt(getParam(p.id, "yield"), <<0>>)]]
    /\ UNCHANGED <<now, storeVars, lastCall, watched, modConfig, cropVars, hookVars>>

(* const stolenStr = await db.getParam(cropId, 'stolen'), getConfig and the *)
(* canSteal check made on what was read                                     *)
stealReadStolen(i) ==
    LET p == procs[i]
        q == Issue(p, "getParam")
        alreadyStolen == parseInt(getParam(p.id, "stolen"), <<0>>)
        canSteal == maxStealable(p.yield, getConfig(p.code)) - alreadyStolen
    IN
    /\ p.pc = "read_stolen"
    /\ procs' = [procs EXCEPT ![i] =
          IF canSteal <= 0 THEN Finish(q, "Nothing to steal")
          ELSE [q EXCEPT !.pc = "set_param", !.items = alreadyStolen]]
    /\ UNCHANGED <<now, storeVars, lastCall, watched, modConfig, cropVars, hookVars>>

(* await db.setParam(cropId, 'stolen', String(alreadyStolen + stealing)) *)
stealSetParam(i) ==
    LET p == procs[i] IN
    /\ p.pc = "set_param"
    /\ objParams' = [objParams EXCEPT ![p.id] = With(@, "stolen", String(p.items + 1))]
    /\ procs' = [procs EXCEPT ![i] = [Issue(p, "setParam") EXCEPT !.pc = "add_item"]]
    /\ UNCHANGED <<now, objects, objCheckpoints, stats, actionLog, friends, nextId, harvested,
                   lastCall, watched, modConfig, cropVars, hookVars>>

(* await db.addItem(userId, crop.type_code, stealing) *)
stealAddItem(i) ==
    LET p == procs[i] IN
    /\ p.pc = "add_item"
    /\ stats' = With(stats, <<p.user, "item", p.code>>, StatValue(<<p.user, "item", p.code>>) + 1)
    /\ procs' = [procs EXCEPT ![i] = [Issue(p, "addItem") EXCEPT !.pc = "log_action"]]
    /\ UNCHANGED <<now, objects, objCheckpoints, objParams, actionLog, friends, nextId, harvested,
                   lastCall, watched, modConfig, cropVars, hookVars>>

(* await db.logAction(userId, 'steal', cropId, crop.user_id) and the return *)
stealLogAction(i) ==
    LET p == procs[i] IN
    /\ p.pc = "log_action"
    /\ logAction(p.user, "steal", p.id, "1")
    /\ procs' = [procs EXCEPT ![i] = Finish(Issue(p, "logAction"), "success")]
    /\ UNCHANGED <<now, objects, objCheckpoints, objParams, stats, friends, nextId, harvested,
                   lastCall, watched, modConfig, cropVars, hookVars>>

(* One tomato of farmer "1" (steal_percent 20) with yield 5 or 10: at most  *)
(* 1 or 2 units may be stolen; "2" and "3" are friends of "1".              *)
StealRunInit ==
    /\ CropIdle
    /\ HookIdle
    /\ now = 0
    /\ objects = <<RunCrop("1")>>
    /\ objCheckpoints = [id \in 1..1 |->
          PersistCheckpoints(generateCropCheckpoints(ScenarioConfig, [i \in 1..4 |-> 99]))]
    /\ \E y \in {5, 10} : objParams = [id \in 1..1 |-> [k \in {"yield"} |-> String(y)]]
    /\ stats = <<>>
    /\ actionLog = <<>>
    /\ friends = {<<"2", "1">>, <<"3", "1">>}
    /\ nextId = 2
    /\ harvested = {}
    /\ lastCall = NoCall
    /\ watched = {}
    /\ RunIdle

StealRunNext ==
    \/ RequestSteal
    \/ \E i \in DOMAIN procs : stealGetObject(i)
    \/ \E i \in DOMAIN procs : stealIsFriend(i)
    \/ \E i \in DOMAIN procs : stealCountToday(i)
    \/ \E i \in DOMAIN procs : stealReadYield(i)
    \/ \E i \in DOMAIN procs : stealReadStolen(i)
    \/ \E i \in DOMAIN procs : stealSetParam(i)
    \/ \E i \in DOMAIN procs : stealAddItem(i)
    \/ \E i \in DOMAIN procs : stealLogAction(i)

SpecStealRun == StealRunInit /\ [][StealRunNext]_vars

CreditedTo(u) == StatValue(<<u, "item", "tomato">>)
TotalCredited == CreditedTo("2") + CreditedTo("3")

(* C36: for steal invocations on one object interleaved at the granularity  *)
(* of storage operations, the total credited to thieves never exceeds       *)
(* floor(yield * steal_percent / 100), and once no invocation is in         *)
(* progress it equals the object's `stolen` Param.                          *)
C36_StolenWithinCap ==
    /\ TotalCredited <= maxStealable(parseInt(getParam(1, "yield"), <<0>>), getConfig("tomato"))
    /\ (\A i \in 1..Len(procs) : procs[i].pc = "done") =>
          TotalCredited = parseInt(getParam(1, "stolen"), <<0>>)

----------------------------------------------------------------------------
(* C37: for plant invocations of one user interleaved at the granularity of *)
(* storage operations, the number of crops created never exceeds the number *)
(* of seeds the user's seed count has gone down by, and the seed count      *)
(* never goes below 0.                                                      *)
C37_CropsWithinSeeds ==
    /\ Cardinality(DOMAIN objects) <= InitialSeeds - StatValue(<<"1", "seed", "tomato">>)
    /\ StatValue(<<"1", "seed", "tomato">>) >= 0

----------------------------------------------------------------------------
(* The plot cycle: handlePlow (plots/FSM.ts) with handlePlant and           *)
(* handleHarvest of the storage-interface handlers (crops/FSM.ts).          *)

(* getPlotState(currentState, cropId).canPlant *)
canPlant(currentState) ==
    CASE currentState = "empty" -> FALSE
      [] currentState = "plowed" -> TRUE
      [] currentState = "planted" -> FALSE
      [] OTHER -> FALSE

(* db.updatePlot(plotId, state, cropId) of the storage interface: the row   *)
(* of the plot, when there is one, takes the state and the crop id          *)
updatePlot(objs, plotId, state, cropId) ==
    IF plotId \in DOMAIN objs
    THEN [objs EXCEPT ![plotId] = With(With(@, "state", state), "crop_id", cropId)]
    ELSE objs

(* handlePlant of the storage-interface handlers: config, deductSilver,     *)
(* insertObject, checkpoints, yield and stolen params, updatePlot           *)
handlePlantOnPlot(u, plotId, cropCode, rolls, yieldAmount) ==
    /\ nextId <= 3
    /\ IF ~KnownCrop(cropCode) THEN Reject("plant_on_plot", u, plotId, "Unknown crop")
       ELSE IF ~canDeductSilver(u, getConfig(cropCode).buy_silver)
       THEN Reject("plant_on_plot", u, plotId, "Not enough silver")
       ELSE LET config == getConfig(cropCode)
                cps == generateCropCheckpoints(config, rolls)
                crop == [user_id |-> u, type_code |-> <<"crop", cropCode>>, created_at |-> now]
            IN
            /\ stats' = With(stats, <<u, "silver", "">>,
                             StatValue(<<u, "silver", "">>) - config.buy_silver)
            /\ objects' = updatePlot(With(objects, nextId, crop), plotId, "planted", nextId)
            /\ objCheckpoints' = With(objCheckpoints, nextId, PersistCheckpoints(cps))
            /\ objParams' = With(objParams, nextId,
                                 [k \in {"yield", "stolen"} |->
                                     IF k = "yield" THEN String(yieldAmount) ELSE String(0)])
            /\ nextId' = nextId + 1
            /\ lastCall' = Recorded(Call("plant_on_plot", u, plotId, TRUE, "", nextId))
            /\ UNCHANGED <<actionLog, friends, harvested>>
    /\ UNCHANGED <<now, watched, runVars, cropVars, hookVars>>

PlotVerbs == {"plow", "plant_on_plot", "harvest"}

(* The farmer "1" owns plot 1 (never ploughed) and 40 silver; "2" owns      *)
(* nothing.                                                                 *)
PlotInit ==
    /\ CropIdle
    /\ HookIdle
    /\ now = 0
    /\ objects = <<[user_id |-> "1", type_code |-> <<"plot", "">>, created_at |-> 0, state |-> ""]>>
    /\ objCheckpoints = <<<<>>>>
    /\ objParams = <<<<>>>>
    /\ stats = [row \in {<<"1", "silver", "">>} |-> 40]
    /\ actionLog = <<>>
    /\ friends = {}
    /\ nextId = 2
    /\ harvested = {}
    /\ lastCall = NoCall
    /\ watched = PlotVerbs
    /\ RunIdle

PlotNext ==
    \/ FrameTick
    \/ \E u \in Actors : handlePlow(u, 1)
    \/ \E draw \in {5, 99} : handlePlantOnPlot("1", 1, "tomato", [i \in 1..4 |-> draw], 10)
    \/ \E id \in {2, 3} : handleHarvest("1", id)

SpecPlot == PlotInit /\ [][PlotNext]_vars

PlotStateOf(objs) == IF StateColumn(objs[1]) = "" THEN "empty" ELSE StateColumn(objs[1])

(* C38: the plot goes empty -> plowed -> planted -> empty: plow succeeds     *)
(* only on an empty plot owned by the actor and deducts exactly PLOW_COST,   *)
(* canPlow and canPlant are never both true, plant is accepted only on a     *)
(* plowed plot, and after the harvest of the crop on a planted plot the plot *)
(* can be plowed again.                                                      *)
C38_PlotCycle ==
    [][/\ ~(canPlow(PlotStateOf(objects)) /\ canPlant(PlotStateOf(objects)))
       /\ (lastCall'.op = "plow" /\ lastCall'.ok) =>
             /\ PlotStateOf(objects) = "empty"
             /\ objects[1].user_id = lastCall'.user
             /\ StatValue(<<lastCall'.user, "silver", "">>) - PLOW_COST
                  = (IF <<lastCall'.user, "silver", "">> \in DOMAIN stats'
                     THEN stats'[<<lastCall'.user, "silver", "">>] ELSE 0)
             /\ PlotStateOf(objects') = "plowed"
       /\ (lastCall'.op = "plant_on_plot" /\ lastCall'.ok) =>
             /\ PlotStateOf(objects) = "plowed"
             /\ PlotStateOf(objects') = "planted"
       /\ (lastCall'.op = "harvest" /\ lastCall'.ok /\ PlotStateOf(objects) = "planted"
             /\ objects[1].crop_id = lastCall'.id) =>
             canPlow(PlotStateOf(objects'))]_vars

----------------------------------------------------------------------------
(* Bank (animals/dog/FSM.ts, BankFSM): handleLoan and handleRepay.  The     *)
(* stats loan_amount, loan_taken_at and silver are rows of user_stats       *)
(* (docs/ARCHITECTURE.md); getStat of a missing row is 0.  The clock moves  *)
(* in whole days, where Math.floor(amount * Math.pow(1.05, days)) is        *)
(* (amount * 105^days) \div 100^days.                                       *)

MAX_LOAN == 10000
LoanRatePercent == 5
DayLength == 86400
BankDays == 2

getStat(u, key) == StatValue(<<u, key, "">>)

(* calculateLoanDebt(amount, takenAt) *)
calculateLoanDebt(amount, takenAt) ==
    LET days == (now - takenAt) \div DayLength
    IN (amount * (100 + LoanRatePercent) ^ days) \div (100 ^ days)

BankReject(op, u, error, amount) ==
    /\ lastCall' = Recorded(Call(op, u, 0, FALSE, error, amount))
    /\ UNCHANGED storeVars

(* faulty variant: a loan is granted without looking at loan_amount *)
handleLoanOnTop(u, amount) ==
    /\ IF amount <= 0 \/ amount > MAX_LOAN THEN BankReject("loan", u, "Amount must be 1-MAX_LOAN", amount)
       ELSE /\ stats' = With(With(With(stats,
                             <<u, "loan_amount", "">>, amount),
                             <<u, "loan_taken_at", "">>, now),
                             <<u, "silver", "">>, getStat(u, "silver") + amount)
            /\ lastCall' = Recorded(Call("loan", u, 0, TRUE, "", amount))
            /\ UNCHANGED <<objects, objParams, objCheckpoints, actionLog, friends, nextId, harvested>>
    /\ UNCHANGED <<now, watched, runVars, cropVars, hookVars>>

handleLoan(u, amount) ==
    /\ IF amount <= 0 \/ amount > MAX_LOAN THEN BankReject("loan", u, "Amount must be 1-MAX_LOAN", amount)
       ELSE IF getStat(u, "loan_amount") > 0 THEN BankReject("loan", u, "Already have a loan", amount)
       ELSE /\ stats' = With(With(With(stats,
                             <<u, "loan_amount", "">>, amount),
                             <<u, "loan_taken_at", "">>, now),
                             <<u, "silver", "">>, getStat(u, "silver") + amount)
            /\ lastCall' = Recorded(Call("loan", u, 0, TRUE, "", amount))
            /\ UNCHANGED <<objects, objParams, objCheckpoints, actionLog, friends, nextId, harvested>>
    /\ UNCHANGED <<now, watched, runVars, cropVars, hookVars>>

handleRepay(u) ==
    /\ IF getStat(u, "loan_amount") <= 0 THEN BankReject("repay", u, "No loan", 0)
       ELSE LET debt == calculateLoanDebt(getStat(u, "loan_amount"), getStat(u, "loan_taken_at"))
                silver == getStat(u, "silver")
            IN IF silver < debt THEN BankReject("repay", u, "Need silver", debt)
               ELSE /\ stats' = With(With(With(stats,
                                     <<u, "silver", "">>, silver - debt),
                                     <<u, "loan_amount", "">>, 0),
                                     <<u, "loan_taken_at", "">>, 0)
                    /\ lastCall' = Recorded(Call("repay", u, 0, TRUE, "", debt))
                    /\ UNCHANGED <<objects, objParams, objCheckpoints, actionLog, friends, nextId,
                                   harvested>>
    /\ UNCHANGED <<now, watched, runVars, cropVars, hookVars>>

LoanAmounts == {-1, 0, 1, 100, MAX_LOAN, MAX_LOAN + 1}

(* a day passes *)
BankTick ==
    /\ Day(now) < BankDays
    /\ now' = now + DayLength
    /\ lastCall' = NoCall
    /\ UNCHANGED <<storeVars, watched, runVars, cropVars, hookVars>>

(* The user "1" on day 1 with no loan and 0, 4 or 1000 silver. *)
BankInit ==
    /\ CropIdle
    /\ HookIdle
    /\ now = DayLength
    /\ objects = <<>>
    /\ objCheckpoints = <<>>
    /\ objParams = <<>>
    /\ \E silver \in {0, 4, 1000} : stats = [row \in {<<"1", "silver", "">>} |-> silver]
    /\ actionLog = <<>>
    /\ friends = {}
    /\ nextId = 1
    /\ harvested = {}
    /\ lastCall = NoCall
    /\ watched = {"loan", "repay"}
    /\ RunIdle

BankNext ==
    \/ BankTick
    \/ \E amount \in LoanAmounts : handleLoan("1", amount)
    \/ handleRepay("1")

SpecBank == BankInit /\ [][BankNext]_vars

============================================================================
